---------------------------- MODULE Spec2Model ----------------------------
(***************************************************************************)
(* Model of the automatic requires-detection engine of cargo-generate-rpm  *)
(* (src/auto_req): the mode dispatcher, the builtin analyzers (ELF + ldd,  *)
(* shebang, executability filter) and the external-script adapter.         *)
(*                                                                         *)
(* Text is modelled as sequences of one-character strings, so that the     *)
(* parsing and formatting of the code is computed, not assumed.            *)
(***************************************************************************)
EXTENDS Integers, Sequences, FiniteSets, TLC

VARIABLES
    pc,         \* position of the running call
    arg,        \* input of the function under analysis (pure-function specifications)
    ret,        \* its output
    mode,       \* AutoReqMode the current (possibly recursive) call was entered with
    files,      \* candidate list handed to find_requires
    fs,         \* environment: what exists on the filesystem / which tools can be spawned
    idx,        \* builtin::find_requires: index of the next candidate
    requires,   \* builtin::find_requires: the accumulating Vec<String>
    result,     \* value returned by auto_req::find_requires
    spawned,    \* programs spawned so far, in order
    opened,     \* candidate files opened or stat-ed so far, in order
    probes,     \* number of Path::new(RPM_FIND_REQUIRES).exists() calls so far
    analyzed,   \* <<analyzer, path>> pairs: which analyzer was handed which candidate
    child,      \* script::find_requires: the spawned child process
    pin,        \* the pipe from the parent to the child's stdin
    pout,       \* the pipe from the child's stdout to the parent
    wbuf,       \* bytes write_all still has to write
    rbuf,       \* bytes the BufReader has read so far
    pos,        \* parse_dotted_bare_keys: the position of the scan
    keys        \* parse_dotted_bare_keys: the keys pushed so far

vars == <<pc, arg, ret, mode, files, fs, idx, requires, result,
          spawned, opened, probes, analyzed, child, pin, pout, wbuf, rbuf,
          pos, keys>>

\* the process and pipe state of script::find_requires
pipeVars == <<child, pin, pout, wbuf, rbuf>>

PipeIdle ==
    /\ child = [some |-> FALSE] /\ pin = [some |-> FALSE] /\ pout = [some |-> FALSE]
    /\ wbuf = <<>> /\ rbuf = <<>>

\* the loop state of parse_dotted_bare_keys
parserVars == <<pos, keys>>

ParserIdle == pos = 0 /\ keys = <<>>

---------------------------------------------------------------------------
(* Bounds of the model *)

MaxLddLines == 3
MaxFiles == 2
MaxPaths == 3

---------------------------------------------------------------------------
(* Text primitives (Rust str / String) *)

\* a string literal as a sequence of characters
Str(s) == [i \in 1..Len(s) |-> SubSeq(s, i, i)]

\* the one non-ASCII character of the model's alphabet
NonAsciiChar == "U+00E9"

\* char::is_whitespace, on the characters of the model's alphabet
IsWhitespace(c) == c \in {" ", "\t", "\n", "\r"}

\* char::is_ascii
IsAscii(c) == c # NonAsciiChar

\* the characters of the alphabet in byte order (String's Ord is byte-wise)
ByteOrder ==
    Str("\t\n\r !#()-./0123456789:=>ABCDEFGHIJKLMNOPQRSTUVWXYZ[]_abcdefghijklmnopqrstuvwxyz")
    \o <<NonAsciiChar>>

Byte(c) == CHOOSE i \in 1..Len(ByteOrder) : ByteOrder[i] = c

\* a < b in String's (lexicographic, byte-wise) order
RECURSIVE StrLess(_, _)
StrLess(a, b) ==
    IF b = <<>> THEN FALSE
    ELSE IF a = <<>> THEN TRUE
    ELSE IF Head(a) = Head(b) THEN StrLess(Tail(a), Tail(b))
    ELSE Byte(Head(a)) < Byte(Head(b))

\* str::starts_with
StartsWith(s, p) == Len(p) <= Len(s) /\ SubSeq(s, 1, Len(p)) = p

\* str::ends_with
EndsWith(s, p) == Len(p) <= Len(s) /\ SubSeq(s, Len(s) - Len(p) + 1, Len(s)) = p

\* position of the first occurrence of p in s, 0 when there is none
FindStr(s, p) ==
    LET hits == {i \in 1..(Len(s) - Len(p) + 1) : SubSeq(s, i, i + Len(p) - 1) = p}
    IN  IF hits = {} THEN 0 ELSE CHOOSE i \in hits : \A j \in hits : i <= j

\* str::contains
Contains(s, p) == FindStr(s, p) # 0

\* str::split(p).next(): the text before the first occurrence of p (all of s when none)
BeforeFirst(s, p) ==
    LET i == FindStr(s, p) IN IF i = 0 THEN s ELSE SubSeq(s, 1, i - 1)

\* str::split(p).skip(1): the text after the first occurrence of p
AfterFirst(s, p) ==
    LET i == FindStr(s, p) IN SubSeq(s, i + Len(p), Len(s))

\* str::split(p) collected: always at least one piece
RECURSIVE Split(_, _)
Split(s, p) ==
    IF ~Contains(s, p) THEN <<s>>
    ELSE <<BeforeFirst(s, p)>> \o Split(AfterFirst(s, p), p)

\* str::trim_start
RECURSIVE TrimStart(_)
TrimStart(s) ==
    IF s # <<>> /\ IsWhitespace(Head(s)) THEN TrimStart(Tail(s)) ELSE s

\* str::trim_end
RECURSIVE TrimEnd(_)
TrimEnd(s) ==
    IF s # <<>> /\ IsWhitespace(s[Len(s)]) THEN TrimEnd(SubSeq(s, 1, Len(s) - 1)) ELSE s

\* str::trim
Trim(s) == TrimEnd(TrimStart(s))

\* str::replace(' ', "")
RemoveSpaces(s) == SelectSeq(s, LAMBDA c : c # " ")

\* [&str]::join(sep)
\* a join that ends every piece, the last one too, with the separator
RECURSIVE JoinTerminated(_, _)
JoinTerminated(pieces, sep) ==
    IF pieces = <<>> THEN <<>>
    ELSE pieces[1] \o sep \o JoinTerminated(Tail(pieces), sep)

RECURSIVE Join(_, _)
Join(pieces, sep) ==
    IF pieces = <<>> THEN <<>>
    ELSE IF Len(pieces) = 1 THEN pieces[1]
    ELSE pieces[1] \o sep \o Join(Tail(pieces), sep)

\* index of the first element of seq that fails P, Len(seq) + 1 when none does
FirstFailing(seq, P(_)) ==
    LET bad == {i \in 1..Len(seq) : ~P(seq[i])}
    IN  IF bad = {} THEN Len(seq) + 1 ELSE CHOOSE i \in bad : \A j \in bad : i <= j

\* Iterator::take_while over a sequence
TakeWhile(seq, P(_)) == SubSeq(seq, 1, FirstFailing(seq, P) - 1)

\* Iterator::skip_while over a sequence
SkipWhile(seq, P(_)) == SubSeq(seq, FirstFailing(seq, P), Len(seq))

\* Iterator::skip(1)
Skip1(seq) == IF seq = <<>> THEN <<>> ELSE Tail(seq)

\* Iterator::map over a sequence
MapSeq(seq, F(_)) == [i \in 1..Len(seq) |-> F(seq[i])]

\* the elements of a sequence
Range(seq) == {seq[i] : i \in 1..Len(seq)}

\* BTreeSet<String>::into_iter: the elements in ascending order
RECURSIVE SortedSeq(_)
SortedSeq(S) ==
    IF S = {} THEN <<>>
    ELSE LET m == CHOOSE x \in S : \A y \in S \ {x} : StrLess(x, y)
         IN  <<m>> \o SortedSeq(S \ {m})

\* all sequences over S of length at most n
RECURSIVE SeqsUpTo(_, _)
SeqsUpTo(S, n) ==
    IF n = 0 THEN {<<>>}
    ELSE LET shorter == SeqsUpTo(S, n - 1)
         IN  shorter \cup {Append(q, x) : q \in {r \in shorter : Len(r) = n - 1}, x \in S}

---------------------------------------------------------------------------
(* auto_req/builtin.rs: ElfInfo and the ldd path *)

\* elf::abi constants the code names
EM_ALPHA == 41
EM_ALPHA_UNOFFICIAL == 36902    \* 0x9026
SHT_HASH == 5
SHT_GNU_HASH == 1879048182      \* 0x6ffffff6

NoneValue == [some |-> FALSE]
Some(v) == [some |-> TRUE, val |-> v]

Ok(v) == [ok |-> TRUE, val |-> v]
ProcessError(prog) == [ok |-> FALSE, err |-> "ProcessError", prog |-> prog]

Marker64 == Str("(64bit)")
RtldGnuHash == Str("rtld(GNU_HASH)")

\* ElfInfo::new on a file the elf crate parses: elf = [class, machine, shtypes]
ElfInfoNew(elf) ==
    [ machine      |-> <<elf.class, elf.machine>>,
      got_hash     |-> \E i \in 1..Len(elf.shtypes) : elf.shtypes[i] = SHT_HASH,
      got_gnu_hash |-> \E i \in 1..Len(elf.shtypes) : elf.shtypes[i] = SHT_GNU_HASH ]

\* ElfInfo::marker with the class test lost
marker_ignores_class(info) ==
    IF info.machine[2] \in {EM_ALPHA, EM_ALPHA_UNOFFICIAL} THEN NoneValue ELSE Some(Marker64)

\* ElfInfo::marker
ElfInfo_marker(info) ==
    IF info.machine[1] = "ELF64" /\ info.machine[2] \in {EM_ALPHA, EM_ALPHA_UNOFFICIAL}
        THEN NoneValue
    ELSE IF info.machine[1] = "ELF64" THEN Some(Marker64)
    ELSE NoneValue

\* Option<&str>::unwrap_or_default
UnwrapOrDefault(opt) == IF opt.some THEN opt.val ELSE <<>>

\* skip_so_name without the prefix test
skip_so_name_any_so(so_name) == Contains(so_name, Str(".so"))

\* find_requires_by_ldd::skip_so_name
skip_so_name(so_name) ==
    /\ Contains(so_name, Str(".so"))
    /\ \/ StartsWith(so_name, Str("ld."))
       \/ StartsWith(so_name, Str("ld-"))
       \/ StartsWith(so_name, Str("ld64."))
       \/ StartsWith(so_name, Str("ld64-"))
       \/ StartsWith(so_name, Str("lib"))

IsBlankLine(line) == Trim(line) = <<>>
FirstToken(line) == BeforeFirst(TrimStart(line), Str(" "))
BeforeArrow(line) == BeforeFirst(TrimStart(line), Str(" => "))

\* the first pass without take_while: every line gives a token
UnversionedLibrariesAllLines(s) == MapSeq(Split(s, Str("\n")), FirstToken)

\* first pass of find_requires_by_ldd over ldd's stdout s
UnversionedLibraries(s) ==
    LET NotBlank(line) == ~IsBlankLine(line)
    IN  MapSeq(TakeWhile(Split(s, Str("\n")), NotBlank), FirstToken)

\* the second pass taking every " => " line after the path line
VersionedLibrariesAllBlocks(s, path) ==
    LET NoHeader(line) == ~Contains(line, Str("Version information:"))
        NoPath(line)   == ~Contains(line, path)
        HasArrow(line) == Contains(line, Str(" => "))
    IN  MapSeq(SelectSeq(Skip1(SkipWhile(Skip1(SkipWhile(Split(s, Str("\n")), NoHeader)),
                                         NoPath)),
                         HasArrow),
               BeforeArrow)

\* second pass of find_requires_by_ldd over ldd's stdout s
VersionedLibraries(s, path) ==
    LET NoHeader(line) == ~Contains(line, Str("Version information:"))
        NoPath(line)   == ~Contains(line, path)
        HasArrow(line) == Contains(line, Str(" => "))
    IN  MapSeq(TakeWhile(Skip1(SkipWhile(Skip1(SkipWhile(Split(s, Str("\n")), NoHeader)),
                                         NoPath)),
                         HasArrow),
               BeforeArrow)

\* the loop body inserting, for an annotated name, the versioned form only
RequiresOfNameVersionedOnly(name, marker) ==
    IF Contains(name, Str(" ("))
        THEN { RemoveSpaces(name) \o marker }
        ELSE { RemoveSpaces(name) \o Str("()") \o marker }

\* body of the for loop of find_requires_by_ldd: what one name inserts
RequiresOfName(name, marker) ==
    IF Contains(name, Str(" ("))
        THEN { BeforeFirst(name, Str(" ")) \o Str("()") \o marker,
               RemoveSpaces(name) \o marker }
        ELSE { RemoveSpaces(name) \o Str("()") \o marker }

\* find_requires_by_ldd, given what ldd printed (lddOut = NoneValue: spawn or read failed)
find_requires_by_ldd(path, marker, lddOut) ==
    IF ~lddOut.some THEN ProcessError(Str("ldd"))
    ELSE LET names  == SelectSeq(UnversionedLibraries(lddOut.val)
                                   \o VersionedLibraries(lddOut.val, path),
                                 skip_so_name)
             m      == UnwrapOrDefault(marker)
         IN  Ok(UNION {RequiresOfName(names[i], m) : i \in 1..Len(names)})

\* find_requires_of_elf returning an error for a file that ElfInfo::new rejects
find_requires_of_elf_strict(path, elf, lddOut) ==
    IF elf.some
        THEN LET info == ElfInfoNew(elf.val)
                 r    == find_requires_by_ldd(path, ElfInfo_marker(info), lddOut)
             IN  IF ~r.ok THEN r
                 ELSE IF info.got_gnu_hash /\ ~info.got_hash
                     THEN Ok(Some(r.val \cup {RtldGnuHash}))
                     ELSE Ok(Some(r.val))
        ELSE [ok |-> FALSE, err |-> "Io"]

\* find_requires_of_elf taking a failure of ldd for a file without requirements
find_requires_of_elf_lenient(path, elf, lddOut) ==
    IF elf.some
        THEN LET info == ElfInfoNew(elf.val)
                 r    == find_requires_by_ldd(path, ElfInfo_marker(info), lddOut)
             IN  IF ~r.ok THEN Ok(NoneValue)
                 ELSE IF info.got_gnu_hash /\ ~info.got_hash
                     THEN Ok(Some(r.val \cup {RtldGnuHash}))
                     ELSE Ok(Some(r.val))
        ELSE Ok(NoneValue)

\* find_requires_of_elf adding the sentinel for every file with a GNU hash section
find_requires_of_elf_any_gnu_hash(path, elf, lddOut) ==
    IF elf.some
        THEN LET info == ElfInfoNew(elf.val)
                 r    == find_requires_by_ldd(path, ElfInfo_marker(info), lddOut)
             IN  IF ~r.ok THEN r
                 ELSE IF info.got_gnu_hash
                     THEN Ok(Some(r.val \cup {RtldGnuHash}))
                     ELSE Ok(Some(r.val))
        ELSE Ok(NoneValue)

\* find_requires_of_elf: elf = NoneValue when ElfInfo::new fails
find_requires_of_elf(path, elf, lddOut) ==
    IF elf.some
        THEN LET info == ElfInfoNew(elf.val)
                 r    == find_requires_by_ldd(path, ElfInfo_marker(info), lddOut)
             IN  IF ~r.ok THEN r
                 ELSE IF info.got_gnu_hash /\ ~info.got_hash
                     THEN Ok(Some(r.val \cup {RtldGnuHash}))
                     ELSE Ok(Some(r.val))
        ELSE Ok(NoneValue)

---------------------------------------------------------------------------
(* Inputs of the ldd path *)

\* the analysed binary
BinPath == Str("/b/sh")

\* lines ldd -v can print for BinPath
LddLines ==
    { Str("\tlibc.so.6 => /l/libc.so.6 (0x1)"),
      Str("\tlinux-vdso.so.1 (0x1)"),
      <<>>,
      Str("\tVersion information:"),
      Str("\t/b/sh:"),
      Str("\t\tlibc.so.6 (GLIBC_2.4) => /l/libc.so.6"),
      Str("\t\tlibz (V.so) => /l/libz"),
      Str("\t\tlibm.so.6 (64bit) => /l/libm.so.6") }

\* what reading ldd's stdout can give: a text, or NoneValue when spawn/read fails
LddOutputs ==
    {Some(Join(ls, Str("\n"))) : ls \in SeqsUpTo(LddLines, MaxLddLines)} \cup {NoneValue}

ElfClasses == {"ELF32", "ELF64"}
\* 3 = EM_386, 62 = EM_X86_64
ElfMachines == {3, 62, EM_ALPHA, EM_ALPHA_UNOFFICIAL}
\* 1 = SHT_PROGBITS
SectionTables ==
    { <<1>>, <<SHT_HASH>>, <<SHT_GNU_HASH>>, <<SHT_GNU_HASH, 1, SHT_HASH>> }

\* what ElfInfo::new can see: a parsed header and section table, or NoneValue (not ELF)
ElfFiles ==
    {Some([class |-> c, machine |-> m, shtypes |-> t]) :
        c \in ElfClasses, m \in ElfMachines, t \in SectionTables} \cup {NoneValue}

\* the parts of the state a pure-function specification does not use
DispatcherIdle ==
    /\ mode = NoneValue /\ files = <<>> /\ fs = "-" /\ idx = 0 /\ requires = <<>>
    /\ result = NoneValue /\ spawned = <<>> /\ opened = <<>> /\ probes = 0 /\ analyzed = <<>>
    /\ PipeIdle
    /\ ParserIdle

DispatcherUnchanged ==
    UNCHANGED <<mode, files, fs, idx, requires, result, spawned, opened, probes, analyzed,
                pipeVars, parserVars>>

InitElf ==
    /\ pc = "elf_call"
    /\ arg \in [elf : ElfFiles, ldd : LddOutputs]
    /\ ret = "-"
    /\ DispatcherIdle

\* one call of find_requires_of_elf(BinPath)
CallElf ==
    /\ pc = "elf_call"
    /\ ret' = find_requires_of_elf(BinPath, arg.elf, arg.ldd)
    /\ pc' = "elf_ret"
    /\ UNCHANGED arg
    /\ DispatcherUnchanged

\* ElfInfo::new(BinPath) followed by marker(), on a file that parses
CallMarker ==
    /\ pc = "elf_call"
    /\ arg.elf.some
    /\ ret' = ElfInfo_marker(ElfInfoNew(arg.elf.val))
    /\ pc' = "marker_ret"
    /\ UNCHANGED arg
    /\ DispatcherUnchanged

NextElf == CallElf \/ CallMarker

SpecElf == InitElf /\ [][NextElf]_vars

---------------------------------------------------------------------------
(* Claims about the ldd path (checked under SpecElf) *)

ElfReturned == pc = "elf_ret" /\ ret.ok /\ ret.val.some
AlphaMachines == {EM_ALPHA, EM_ALPHA_UNOFFICIAL}

\* C4: every requirement returned by find_requires_of_elf contains ".so" or is
\* exactly "rtld(GNU_HASH)", whatever ldd printed and whatever the descriptor
C4_SonameFilter ==
    ElfReturned => \A r \in ret.val.val : Contains(r, Str(".so")) \/ r = RtldGnuHash

\* C5: the marker is decided by (class, machine) alone: None for ELF32, None for
\* ELF64 on EM_ALPHA or 0x9026, Some("(64bit)") for every other ELF64 machine
C5_MarkerFunction ==
    pc = "marker_ret" =>
        ret = IF arg.elf.val.class = "ELF64" /\ arg.elf.val.machine \notin {EM_ALPHA, 36902}
                  THEN Some(Str("(64bit)"))
                  ELSE NoneValue

C5_Witness ==
    /\ pc = "marker_ret"
    /\ arg.elf.val.class = "ELF64"
    /\ arg.elf.val.machine = 36902
    /\ Len(arg.elf.val.shtypes) > 1
    /\ ret = NoneValue

\* C6 as stated: with ELF64 outside the Alpha set every requirement but the
\* sentinel ends with "(64bit)"; with ELF32 no requirement ends with "(64bit)"
C6_MarkerSuffix ==
    ElfReturned =>
        /\ (arg.elf.val.class = "ELF64" /\ arg.elf.val.machine \notin AlphaMachines)
              => \A r \in ret.val.val \ {RtldGnuHash} : EndsWith(r, Str("(64bit)"))
        /\ arg.elf.val.class = "ELF32"
              => \A r \in ret.val.val : ~EndsWith(r, Str("(64bit)"))

\* a line of ldd's output whose candidate itself, spaces removed, ends with "(64bit)"
PrintsAnnotation64(text) ==
    \E line \in Range(Split(text, Str("\n"))) :
        Contains(RemoveSpaces(line), Str("(64bit)=>"))

\* C6 amended: with ELF64 outside the Alpha set every requirement but the sentinel
\* ends with "(64bit)"; with ELF32 nothing is appended, so a requirement ends with
\* "(64bit)" only if the candidate ldd printed ends with that annotation itself
C6_MarkerSuffixAmended ==
    ElfReturned =>
        /\ (arg.elf.val.class = "ELF64" /\ arg.elf.val.machine \notin AlphaMachines)
              => \A r \in ret.val.val \ {RtldGnuHash} : EndsWith(r, Str("(64bit)"))
        /\ arg.elf.val.class = "ELF32"
              => \A r \in ret.val.val :
                    EndsWith(r, Str("(64bit)")) => PrintsAnnotation64(arg.ldd.val)

C6_Witness ==
    /\ ElfReturned
    /\ arg.elf.val.class = "ELF64" /\ arg.elf.val.machine = 62
    /\ Str("libc.so.6(GLIBC_2.4)(64bit)") \in ret.val.val
    /\ Str("libc.so.6()(64bit)") \in ret.val.val
    /\ RtldGnuHash \in ret.val.val

---------------------------------------------------------------------------
(* auto_req/builtin.rs: the shebang analyzer *)

\* reading the whole rest of the file where one line is meant
ReadToEnd(text) == text

\* BufRead::read_line: the text up to and including the first "\n"
ReadLine(text) ==
    LET i == FindStr(text, Str("\n"))
    IN  IF i = 0 THEN text ELSE SubSeq(text, 1, i)

\* str::split(|c| !c.is_ascii() || c.is_whitespace()).next()
LeadingRun(s) ==
    LET Plain(c) == IsAscii(c) /\ ~IsWhitespace(c)
    IN  TakeWhile(s, Plain)

\* the interpreter block of find_require_of_shebang, on an opened file:
\* file = [open, content, ioerr], ioerr in {"none", "read", "read_line"}
ShebangInterpreter(file) ==
    LET content      == file.content
        shebang_size == IF Len(content) < 2 THEN Len(content) ELSE 2
        shebang      == [i \in 1..2 |-> IF i <= shebang_size THEN content[i] ELSE "NUL"]
    IN  IF file.ioerr = "read" \/ shebang_size = 0 THEN [return |-> TRUE]
        ELSE IF shebang_size = 2 \/ shebang = <<"#", "!">>
            THEN IF file.ioerr = "read_line" THEN [return |-> TRUE]
                 ELSE [return |-> FALSE,
                       interpreter |->
                           Some(LeadingRun(Trim(ReadLine(SubSeq(content, 3, Len(content))))))]
            ELSE [return |-> FALSE, interpreter |-> NoneValue]

\* find_require_of_shebang with the existence test lost
find_require_of_shebang_no_exists(file, exists) ==
    IF ~file.open THEN Ok(NoneValue)
    ELSE LET b == ShebangInterpreter(file)
         IN  IF b.return THEN Ok(NoneValue) ELSE Ok(b.interpreter)

\* find_require_of_shebang: exists = the paths at which a filesystem entry exists
find_require_of_shebang(file, exists) ==
    IF ~file.open THEN Ok(NoneValue)
    ELSE LET b == ShebangInterpreter(file)
         IN  IF b.return THEN Ok(NoneValue)
             ELSE IF b.interpreter.some /\ b.interpreter.val \in exists
                 THEN Ok(Some(b.interpreter.val))
                 ELSE Ok(NoneValue)

---------------------------------------------------------------------------
(* Inputs of the shebang analyzer *)

ShebangHeads == {Str("#!"), Str("xx"), Str("!#"), Str("#x")}
ShebangGaps == {<<>>, Str(" \t")}
PlainPaths == {Str("/b/sh"), Str("/b/env"), Str("b/sh")}
InterpreterPaths == PlainPaths \cup {Str("/b/") \o <<NonAsciiChar>>}
ShebangTails ==
    { <<>>, Str("\r\n"), Str(" -x\n#!/b/env\n"), Str("\n/b/env\n"),
      <<NonAsciiChar>> \o Str("x\n") }

\* the filesystem: the paths at which an entry exists (an entry under /b/ needs /b/)
FsStates ==
    {e \in SUBSET (InterpreterPaths \cup {Str("/b/")}) :
        (\E q \in e : StartsWith(q, Str("/b/")) /\ q # Str("/b/")) => Str("/b/") \in e}
ShortContents == {<<>>, Str("#"), Str("x"), Str("#!"), Str("#!\n/b/sh\n")}

\* a file laid out as head, gap, interpreter path, tail
ShebangLayouts ==
    [head : ShebangHeads, gap : ShebangGaps, interp : InterpreterPaths, tail : ShebangTails]

LayoutContent(l) == l.head \o l.gap \o l.interp \o l.tail

InitShebang ==
    /\ pc = "shebang_call"
    /\ \E open \in BOOLEAN, ioerr \in {"none", "read", "read_line"}, exists \in FsStates :
          /\ (~open => ioerr = "none")
          /\ \/ \E l \in ShebangLayouts :
                arg = [open |-> open, ioerr |-> ioerr, exists |-> exists,
                       layout |-> Some(l), content |-> LayoutContent(l)]
             \/ \E c \in ShortContents :
                arg = [open |-> open, ioerr |-> ioerr, exists |-> exists,
                       layout |-> NoneValue, content |-> c]
    /\ ret = "-"
    /\ DispatcherIdle

\* one call of find_require_of_shebang
CallShebang ==
    /\ pc = "shebang_call"
    /\ ret' = find_require_of_shebang(arg, arg.exists)
    /\ pc' = "shebang_ret"
    /\ UNCHANGED arg
    /\ DispatcherUnchanged

NextShebang == CallShebang

SpecShebang == InitShebang /\ [][NextShebang]_vars

---------------------------------------------------------------------------
(* Claims about the shebang analyzer (checked under SpecShebang) *)

\* C8: a file whose first two bytes are not "#!" yields None, whatever the rest
\* of its first line and whatever exists on the filesystem
C8_NoShebangNone ==
    (pc = "shebang_ret" /\ ~StartsWith(arg.content, Str("#!"))) => ret = Ok(NoneValue)

\* char-wise test of "ASCII and not whitespace"
IsPlainPath(q) == \A i \in 1..Len(q) : IsAscii(q[i]) /\ ~IsWhitespace(q[i])

ShebangFileRead ==
    /\ pc = "shebang_ret"
    /\ arg.open /\ arg.ioerr = "none"
    /\ arg.layout.some /\ arg.layout.val.head = Str("#!")

\* C9 as stated: a readable file that begins with "#!" and an interpreter path P
\* yields Some(P) exactly when an entry exists at P, and None otherwise; the
\* string returned is P itself
C9_ShebangResolution ==
    ShebangFileRead =>
        ret = IF arg.layout.val.interp \in arg.exists
                  THEN Ok(Some(arg.layout.val.interp))
                  ELSE Ok(NoneValue)

\* C9 amended: the same, for an interpreter path P made of ASCII characters that
\* are not whitespace
C9_ShebangResolutionAscii ==
    (ShebangFileRead /\ IsPlainPath(arg.layout.val.interp)) =>
        ret = IF arg.layout.val.interp \in arg.exists
                  THEN Ok(Some(arg.layout.val.interp))
                  ELSE Ok(NoneValue)

C9_Witness ==
    /\ pc = "shebang_ret"
    /\ arg.open /\ arg.ioerr = "none"
    /\ arg.layout.some /\ arg.layout.val.head = Str("#!")
    /\ arg.layout.val.gap = Str(" \t")
    /\ arg.layout.val.interp = Str("/b/env")
    /\ arg.layout.val.tail = Str(" -x\n#!/b/env\n")
    /\ arg.exists = {Str("/b/"), Str("/b/env")}
    /\ ret = Ok(Some(Str("/b/env")))

C9_WitnessMissing ==
    /\ pc = "shebang_ret"
    /\ arg.open /\ arg.ioerr = "none"
    /\ arg.layout.some /\ arg.layout.val.head = Str("#!")
    /\ arg.layout.val.interp = Str("/b/sh")
    /\ arg.exists = {Str("/b/"), Str("/b/env")}
    /\ ret = Ok(NoneValue)

---------------------------------------------------------------------------
(* auto_req/script.rs: the external-script adapter *)

\* a byte sequence that is not UTF-8, as one character of the alphabet
InvalidByte == "0xFF"

\* Path::to_str succeeds
IsUtf8(p) == \A i \in 1..Len(p) : p[i] # InvalidByte

\* one line as BufRead::lines yields it: without its "\n" and without a "\r" before it
StripCr(line) ==
    IF line # <<>> /\ line[Len(line)] = "\r" THEN SubSeq(line, 1, Len(line) - 1) ELSE line

\* BufRead::lines over a whole text
Lines(text) ==
    LET nl     == {i \in 1..Len(text) : text[i] = "\n"}
        n      == Cardinality(nl)
        At(k)  == IF k = 0 THEN 0 ELSE CHOOSE i \in nl : Cardinality({j \in nl : j <= i}) = k
        ended  == [k \in 1..n |-> StripCr(SubSeq(text, At(k - 1) + 1, At(k) - 1))]
    IN  IF At(n) < Len(text) THEN Append(ended, SubSeq(text, At(n) + 1, Len(text)))
        ELSE ended

\* what a child process writes to stdout, given its behaviour and what it reads on stdin
ChildStdout(behaviour, stdin) ==
    CASE behaviour.kind = "echo"   -> stdin
      [] behaviour.kind = "silent" -> <<>>
      [] behaviour.kind = "prints" -> behaviour.out

IsNonEmpty(s) == s # <<>>

\* the loop over reader.lines() pushing the empty lines too
ReadResultKeepsEmpty(stdout, script_path) ==
    IF ~IsUtf8(stdout) THEN ProcessError(script_path) ELSE Ok(Lines(stdout))

\* the loop over reader.lines() skipping the lines it cannot read
ReadResultLossy(stdout, script_path) ==
    Ok(SelectSeq(SelectSeq(Lines(stdout), IsUtf8), IsNonEmpty))

\* the loop over reader.lines(): an unreadable line ends the call with ProcessError,
\* an empty line is ignored, any other line is pushed
ReadResult(stdout, script_path) ==
    IF ~IsUtf8(stdout) THEN ProcessError(script_path)
    ELSE Ok(SelectSeq(Lines(stdout), IsNonEmpty))

\* script::find_requires with the lines collected in reverse
script_find_requires_reversed(path, script_path, programs) ==
    IF programs[script_path].kind = "missing" THEN ProcessError(script_path)
    ELSE LET filenames == Join(SelectSeq(path, IsUtf8), Str("\n"))
             ls        == SelectSeq(Lines(ChildStdout(programs[script_path], filenames)),
                                    IsNonEmpty)
         IN  Ok([i \in 1..Len(ls) |-> ls[Len(ls) + 1 - i]])

\* script::find_requires: programs maps a program path to how that program behaves.
\* This is the call when the child takes all of its stdin before it exits; the
\* interleavings of the two processes are in PipeNext below.
script_find_requires(path, script_path, programs) ==
    IF programs[script_path].kind = "missing" THEN ProcessError(script_path)
    ELSE LET filenames == Join(SelectSeq(path, IsUtf8), Str("\n"))
         IN  ReadResult(ChildStdout(programs[script_path], filenames), script_path)

---------------------------------------------------------------------------
(* Inputs of the external-script adapter *)

BinCat == Str("/bin/cat")
BinFalse == Str("/bin/false")
NotExist == Str("not-exist")
RPM_FIND_REQUIRES == Str("/usr/lib/rpm/find-requires")

\* texts a dependency finder can print
FinderOutputs ==
    { <<>>, Str("libc.so.6()(64bit)\n"), Str("/b/sh\n\nlibz.so.1\n/b/sh\n"), Str("\n\r\nperl"),
      <<InvalidByte>> \o Str("\nperl") }

\* the programs of the environment; find-requires may be absent
ProgramTables ==
    { [p \in {BinCat, BinFalse, NotExist, RPM_FIND_REQUIRES} |->
          CASE p = BinCat            -> [kind |-> "echo"]
            [] p = BinFalse          -> [kind |-> "silent"]
            [] p = NotExist          -> [kind |-> "missing"]
            [] p = RPM_FIND_REQUIRES -> rpm] :
        rpm \in {[kind |-> "missing"]} \cup {[kind |-> "prints", out |-> o] : o \in FinderOutputs} }

ScriptPaths == {Str("/a/b"), Str("/c/d"), Str("/e\r"), <<"/", InvalidByte>>}

InitScript ==
    /\ pc = "script_call"
    /\ arg \in [path : SeqsUpTo(ScriptPaths, MaxPaths),
                script_path : {BinCat, BinFalse, NotExist, RPM_FIND_REQUIRES},
                programs : ProgramTables]
    /\ ret = "-"
    /\ DispatcherIdle

\* one call of script::find_requires
CallScript ==
    /\ pc = "script_call"
    /\ ret' = script_find_requires(arg.path, arg.script_path, arg.programs)
    /\ pc' = "script_ret"
    /\ UNCHANGED arg
    /\ DispatcherUnchanged

NextScript == CallScript

SpecScript == InitScript /\ [][NextScript]_vars

---------------------------------------------------------------------------
(* Claims about the external-script adapter (checked under SpecScript) *)

EchoedPaths ==
    /\ pc = "script_ret"
    /\ arg.script_path = BinCat
    /\ \A i \in 1..Len(arg.path) :
          /\ arg.path[i] # <<>>
          /\ IsUtf8(arg.path[i])
          /\ "\n" \notin Range(arg.path[i])

\* C10 as stated: with a program that copies stdin to stdout, the adapter returns
\* exactly the candidate paths, in input order, for every list of non-empty UTF-8
\* paths without a newline
C10_Echo == EchoedPaths => ret = Ok(arg.path)

\* C10 amended: the same, for paths that also do not end with a carriage return
C10_EchoNoCr ==
    (EchoedPaths /\ \A i \in 1..Len(arg.path) : arg.path[i][Len(arg.path[i])] # "\r")
        => ret = Ok(arg.path)

C10_Witness ==
    /\ pc = "script_ret"
    /\ arg.script_path = BinCat
    /\ arg.path = <<Str("/a/b"), Str("/c/d")>>
    /\ ret = Ok(<<Str("/a/b"), Str("/c/d")>>)

---------------------------------------------------------------------------
(* auto_req/builtin.rs: executability filter and the builtin loop *)

\* a & b on non-negative integers
RECURSIVE BitAnd(_, _)
BitAnd(a, b) ==
    IF a = 0 \/ b = 0 THEN 0
    ELSE (a % 2) * (b % 2) + 2 * BitAnd(a \div 2, b \div 2)

\* 0o111
ExecBits == 73
\* is_executable testing all permission bits (0o777 = 511) instead of the execute bits
is_executable_any_permission(file) ==
    IF file.meta.some THEN BitAnd(file.meta.val, 511) # 0 ELSE FALSE

\* is_executable (cfg(unix)): file.meta is the mode, NoneValue when metadata() fails
is_executable(file) ==
    IF file.meta.some THEN BitAnd(file.meta.val, ExecBits) # 0 ELSE FALSE

\* the candidate files of the environment: mode, ELF view, ldd report, bytes
ElfSh == Some([class |-> "ELF64", machine |-> 62, shtypes |-> <<1, SHT_GNU_HASH>>])
ElfLs == Some([class |-> "ELF64", machine |-> 62, shtypes |-> <<SHT_HASH, SHT_GNU_HASH>>])
ElfSo == Some([class |-> "ELF32", machine |-> 3, shtypes |-> <<SHT_HASH>>])
ElfStatic == Some([class |-> "ELF64", machine |-> 62, shtypes |-> <<1>>])

Catalogue ==
    [p \in {Str("/b/sh"), Str("/b/ls"), Str("/b/run"), Str("/d/doc"), Str("/d/so"),
            Str("/d/txt"), Str("/d/gone"), Str("/b/bad"), Str("/b/x"), Str("/b/bin"),
            Str("/b/st")} |->
        CASE p = Str("/b/sh") ->      \* 0o755, dynamically linked
                [meta |-> Some(493), elf |-> ElfSh, open |-> TRUE, ioerr |-> "none",
                 content |-> Str("ELF"),
                 ldd |-> Str("\tlibc.so.6 => /l/libc.so.6 (0x1)\n\n\tVersion information:\n\t/b/sh:\n\t\tlibc.so.6 (GLIBC_2.4) => /l/libc.so.6")]
          [] p = Str("/b/ls") ->      \* 0o654: group execute bit only
                [meta |-> Some(428), elf |-> ElfLs, open |-> TRUE, ioerr |-> "none",
                 content |-> Str("ELF"),
                 ldd |-> Str("\tliba.so.1 => /l/liba.so.1 (0x1)\n\tlibc.so.6 => /l/libc.so.6 (0x1)")]
          [] p = Str("/b/run") ->     \* 0o744: owner execute bit only
                [meta |-> Some(484), elf |-> NoneValue, open |-> TRUE, ioerr |-> "none",
                 content |-> Str("#!/b/sh\n"), ldd |-> <<>>]
          [] p = Str("/d/doc") ->     \* 0o644: a script that is not executable
                [meta |-> Some(420), elf |-> NoneValue, open |-> TRUE, ioerr |-> "none",
                 content |-> Str("#!/b/ls -l\n"), ldd |-> <<>>]
          [] p = Str("/d/so") ->      \* 0o666: a shared object that is not executable
                [meta |-> Some(438), elf |-> ElfSo, open |-> TRUE, ioerr |-> "none",
                 content |-> Str("ELF"),
                 ldd |-> Str("\tlibm.so.6 => /l/libm.so.6 (0x1)")]
          [] p = Str("/d/txt") ->     \* 0o645: other execute bit only, no shebang
                [meta |-> Some(421), elf |-> NoneValue, open |-> TRUE, ioerr |-> "none",
                 content |-> Str("hello\n"), ldd |-> <<>>]
          [] p = Str("/d/gone") ->    \* no such file
                [meta |-> NoneValue, elf |-> NoneValue, open |-> FALSE, ioerr |-> "none",
                 content |-> <<>>, ldd |-> <<>>]
          [] p = Str("/b/bad") ->     \* 0o755, ldd prints bytes that are not UTF-8
                [meta |-> Some(493), elf |-> ElfSh, open |-> TRUE, ioerr |-> "none",
                 content |-> Str("ELF"), ldd |-> <<InvalidByte>>]
          [] p = Str("/b/x") ->       \* 0o711: executable, but it cannot be opened
                [meta |-> Some(457), elf |-> NoneValue, open |-> FALSE, ioerr |-> "none",
                 content |-> <<>>, ldd |-> <<>>]
          [] p = Str("/b/bin") ->     \* 0o755: the first line is not UTF-8
                [meta |-> Some(493), elf |-> NoneValue, open |-> TRUE, ioerr |-> "read_line",
                 content |-> Str("#!") \o <<InvalidByte>> \o Str("\n"), ldd |-> <<>>]
          [] p = Str("/b/st") ->      \* 0o755, statically linked, no hash section
                [meta |-> Some(493), elf |-> ElfStatic, open |-> TRUE, ioerr |-> "none",
                 content |-> Str("ELF"), ldd |-> Str("\tnot a dynamic executable")] ]

\* the paths at which an entry exists
ExistingPaths(env) ==
    {p \in DOMAIN Catalogue : Catalogue[p].meta.some}
        \cup (IF env.rpm_exists THEN {RPM_FIND_REQUIRES} ELSE {})

\* what running ldd -v on p gives in this environment: NoneValue when ldd cannot be
\* spawned or read_to_string fails on what it prints
LddOf(p, env) ==
    IF env.ldd_ok /\ IsUtf8(Catalogue[p].ldd) THEN Some(Catalogue[p].ldd) ELSE NoneValue

\* the loop body consulting the shebang analyzer for an ELF file without requirements
BuiltinCandidateBoth(st, p, env) ==
    LET f  == Catalogue[p]
        s1 == [st EXCEPT !.opened = Append(@, <<"metadata", p>>)]
    IN  IF ~is_executable(f) THEN s1
        ELSE LET e  == find_requires_of_elf(p, f.elf, LddOf(p, env))
                 s2 == [s1 EXCEPT !.opened   = Append(@, <<"open", p>>),
                                  !.analyzed = Append(@, <<"elf", p>>),
                                  !.spawned  = IF f.elf.some THEN Append(@, Str("ldd")) ELSE @]
             IN  IF ~e.ok THEN [s2 EXCEPT !.error = Some(e)]
                 ELSE IF e.val.some /\ e.val.val # {}
                     THEN [s2 EXCEPT !.requires = @ \o SortedSeq(e.val.val)]
                     ELSE LET sb == find_require_of_shebang(f, ExistingPaths(env))
                              s3 == [s2 EXCEPT !.opened   = Append(@, <<"open", p>>),
                                               !.analyzed = Append(@, <<"shebang", p>>)]
                          IN  IF sb.val.some
                                  THEN [s3 EXCEPT !.requires = Append(@, sb.val.val)]
                                  ELSE s3

\* body of the for loop of builtin::find_requires for candidate p, on the loop state
\* st = [requires, error, spawned, opened, analyzed]
BuiltinCandidate(st, p, env) ==
    LET f  == Catalogue[p]
        s1 == [st EXCEPT !.opened = Append(@, <<"metadata", p>>)]
    IN  IF ~is_executable(f) THEN s1
        ELSE LET e  == find_requires_of_elf(p, f.elf, LddOf(p, env))
                 s2 == [s1 EXCEPT !.opened   = Append(@, <<"open", p>>),
                                  !.analyzed = Append(@, <<"elf", p>>),
                                  !.spawned  = IF f.elf.some THEN Append(@, Str("ldd")) ELSE @]
             IN  IF ~e.ok THEN [s2 EXCEPT !.error = Some(e)]
                 ELSE IF e.val.some
                     THEN [s2 EXCEPT !.requires = @ \o SortedSeq(e.val.val)]
                     ELSE LET sb == find_require_of_shebang(f, ExistingPaths(env))
                              s3 == [s2 EXCEPT !.opened   = Append(@, <<"open", p>>),
                                               !.analyzed = Append(@, <<"shebang", p>>)]
                          IN  IF sb.val.some
                                  THEN [s3 EXCEPT !.requires = Append(@, sb.val.val)]
                                  ELSE s3

BuiltinStart ==
    [requires |-> <<>>, error |-> NoneValue, spawned |-> <<>>, opened |-> <<>>,
     analyzed |-> <<>>]

\* the for loop of builtin::find_requires from state st over the candidates left
RECURSIVE BuiltinLoop(_, _, _)
BuiltinLoop(st, path, env) ==
    IF path = <<>> \/ st.error.some THEN st
    ELSE BuiltinLoop(BuiltinCandidate(st, Head(path), env), Tail(path), env)

\* builtin::find_requires
builtin_find_requires(path, env) ==
    LET st == BuiltinLoop(BuiltinStart, path, env)
    IN  IF st.error.some THEN st.error.val ELSE Ok(st.requires)

---------------------------------------------------------------------------
(* auto_req/mod.rs: the mode dispatcher *)

Auto == [kind |-> "Auto"]
Disabled == [kind |-> "Disabled"]
BuiltIn == [kind |-> "BuiltIn"]
Script(script) == [kind |-> "Script", script |-> script]

\* the Auto arm of find_requires with its two branches exchanged
AutoBranchSwapped(env) ==
    IF RPM_FIND_REQUIRES \in ExistingPaths(env) THEN BuiltIn ELSE Script(RPM_FIND_REQUIRES)

\* the Auto arm of find_requires: the mode of the recursive call
AutoBranch(env) ==
    IF RPM_FIND_REQUIRES \in ExistingPaths(env) THEN Script(RPM_FIND_REQUIRES) ELSE BuiltIn

Modes == {Auto, Disabled, BuiltIn, Script(BinCat), Script(NotExist), Script(RPM_FIND_REQUIRES)}

\* environments: find-requires absent, present but not runnable, or present and printing
Environments ==
    { e \in [rpm_exists : BOOLEAN, ldd_ok : BOOLEAN, programs : ProgramTables] :
        e.programs[RPM_FIND_REQUIRES].kind = "prints" =>
            /\ e.rpm_exists
            /\ e.programs[RPM_FIND_REQUIRES].out \in {<<>>, Str("/b/sh\n\nlibz.so.1\n/b/sh\n")} }

\* candidate lists: distinct files of the catalogue
CandidateLists ==
    {q \in SeqsUpTo(DOMAIN Catalogue, MaxFiles) : \A i, j \in 1..Len(q) : q[i] = q[j] => i = j}

Init ==
    /\ pc = "call"
    /\ mode \in Modes
    /\ arg = [mode |-> mode]
    /\ ret = "-"
    /\ files \in CandidateLists
    /\ fs \in Environments
    /\ idx = 0
    /\ requires = <<>>
    /\ result = "-"
    /\ spawned = <<>>
    /\ opened = <<>>
    /\ probes = 0
    /\ analyzed = <<>>
    /\ PipeIdle
    /\ ParserIdle

\* the Disabled arm running the builtin analyzers all the same
FindRequiresDisabledAsBuiltIn ==
    /\ pc = "call" /\ mode = Disabled
    /\ LET st == BuiltinLoop(BuiltinStart, files, fs)
       IN  /\ result' = Ok(<<>>)
           /\ spawned' = st.spawned /\ opened' = st.opened /\ analyzed' = st.analyzed
    /\ pc' = "done"
    /\ UNCHANGED <<pipeVars, parserVars, arg, ret, mode, files, fs, idx, requires, probes>>

\* find_requires, arm AutoReqMode::Auto: one existence test, then the recursive call
FindRequiresAuto ==
    /\ pc = "call" /\ mode = Auto
    /\ probes' = probes + 1
    /\ mode' = AutoBranch(fs)
    /\ UNCHANGED <<pipeVars, parserVars, pc, arg, ret, files, fs, idx, requires, result, spawned, opened, analyzed>>

\* find_requires, arm AutoReqMode::Disabled
FindRequiresDisabled ==
    /\ pc = "call" /\ mode = Disabled
    /\ result' = Ok(<<>>)
    /\ pc' = "done"
    /\ UNCHANGED <<pipeVars, parserVars, arg, ret, mode, files, fs, idx, requires, spawned, opened, probes, analyzed>>

\* find_requires, arm AutoReqMode::Script: the whole script::find_requires call
FindRequiresScript ==
    /\ pc = "call" /\ mode.kind = "Script"
    /\ spawned' = Append(spawned, mode.script)
    /\ result' = script_find_requires(files, mode.script, fs.programs)
    /\ pc' = "done"
    /\ UNCHANGED <<pipeVars, parserVars, arg, ret, mode, files, fs, idx, requires, opened, probes, analyzed>>

\* find_requires, arm AutoReqMode::BuiltIn: entry of builtin::find_requires
FindRequiresBuiltIn ==
    /\ pc = "call" /\ mode = BuiltIn
    /\ requires' = <<>>
    /\ idx' = 1
    /\ pc' = "builtin"
    /\ UNCHANGED <<pipeVars, parserVars, arg, ret, mode, files, fs, result, spawned, opened, probes, analyzed>>

\* one iteration of the for loop of builtin::find_requires
BuiltinNext ==
    /\ pc = "builtin" /\ idx <= Len(files)
    /\ LET st == BuiltinCandidate([requires |-> requires, error |-> NoneValue,
                                   spawned |-> spawned, opened |-> opened,
                                   analyzed |-> analyzed],
                                  files[idx], fs)
       IN  /\ requires' = st.requires
           /\ spawned' = st.spawned
           /\ opened' = st.opened
           /\ analyzed' = st.analyzed
           /\ IF st.error.some
                 THEN result' = st.error.val /\ pc' = "done" /\ idx' = idx
                 ELSE result' = result /\ pc' = pc /\ idx' = idx + 1
    /\ UNCHANGED <<pipeVars, parserVars, arg, ret, mode, files, fs, probes>>

\* the end of builtin::find_requires: Ok(requires)
BuiltinReturn ==
    /\ pc = "builtin" /\ idx > Len(files)
    /\ result' = Ok(requires)
    /\ pc' = "done"
    /\ UNCHANGED <<pipeVars, parserVars, arg, ret, mode, files, fs, idx, requires, spawned, opened, probes, analyzed>>

Next ==
    \/ FindRequiresAuto
    \/ FindRequiresDisabled
    \/ FindRequiresScript
    \/ FindRequiresBuiltIn
    \/ BuiltinNext
    \/ BuiltinReturn

Spec == Init /\ [][Next]_vars

---------------------------------------------------------------------------
(* Claims about the dispatcher and the builtin loop (checked under Spec) *)

\* C1: with mode Disabled the call returns Ok with an empty result, for every
\* candidate list, and no process is spawned and no candidate file is touched
C1_DisabledEmpty ==
    (pc = "done" /\ arg.mode = Disabled) =>
        /\ result = Ok(<<>>)
        /\ spawned = <<>>
        /\ opened = <<>>
        /\ analyzed = <<>>
        /\ probes = 0

C1_Witness ==
    /\ pc = "done" /\ arg.mode = Disabled
    /\ files = <<Str("/b/sh"), Str("/b/run")>>
    /\ result = Ok(<<>>)

\* C2: mode Auto returns what Script(/usr/lib/rpm/find-requires) returns on the same
\* candidates when that path exists and what BuiltIn returns when it does not; the
\* existence test is made exactly once, before any candidate is processed
C2_AutoResolution ==
    arg.mode = Auto =>
        /\ probes <= 1
        /\ probes = 0 => (spawned = <<>> /\ opened = <<>> /\ analyzed = <<>> /\ pc = "call")
        /\ pc = "done" =>
              /\ probes = 1
              /\ result = IF fs.rpm_exists
                              THEN script_find_requires(files, RPM_FIND_REQUIRES, fs.programs)
                              ELSE builtin_find_requires(files, fs)

C2_Witness ==
    /\ pc = "done" /\ arg.mode = Auto
    /\ fs.rpm_exists /\ fs.programs[RPM_FIND_REQUIRES].kind = "prints"
    /\ Len(files) = 2
    /\ result = Ok(<<Str("/b/sh"), Str("libz.so.1"), Str("/b/sh")>>)

C2_WitnessBuiltIn ==
    /\ pc = "done" /\ arg.mode = Auto
    /\ ~fs.rpm_exists
    /\ files = <<Str("/b/run"), Str("/b/ls")>>
    /\ result.ok /\ Len(result.val) = 3

NoDuplicates(seq) == \A i, j \in 1..Len(seq) : seq[i] = seq[j] => i = j
Ascending(seq) == \A i \in 1..(Len(seq) - 1) : StrLess(seq[i], seq[i + 1])

\* C3: the result of Builtin discovery holds no requirement twice and is in
\* lexicographic order, also when two candidates induce the same requirement
C3_BuiltinSet ==
    (pc = "done" /\ arg.mode = BuiltIn /\ result.ok) =>
        NoDuplicates(result.val) /\ Ascending(result.val)

\* the execute bits of a mode, read digit by digit
HasExecuteBit(m) == (m \div 64) % 2 = 1 \/ (m \div 8) % 2 = 1 \/ m % 2 = 1
ExecutableByMode(p) == Catalogue[p].meta.some /\ HasExecuteBit(Catalogue[p].meta.val)

\* C7: in Builtin mode a candidate with none of the execute bits set, or whose
\* metadata cannot be read, is handed to neither analyzer and adds no requirement:
\* the result is the one of the list without such candidates
C7_ExecutabilityGate ==
    /\ \A i \in 1..Len(analyzed) : ExecutableByMode(analyzed[i][2])
    /\ (pc = "done" /\ arg.mode = BuiltIn) =>
           result = builtin_find_requires(SelectSeq(files, ExecutableByMode), fs)

C7_Witness ==
    /\ pc = "done" /\ arg.mode = BuiltIn
    /\ files = <<Str("/d/doc"), Str("/d/so")>>
    /\ fs.ldd_ok
    /\ analyzed = <<>>
    /\ result = Ok(<<>>)


---------------------------------------------------------------------------
(* auto_req/script.rs: script::find_requires as two processes and two pipes *)

\* bytes a pipe holds before a writer blocks
PipeCap == 2

Min(a, b) == IF a <= b THEN a ELSE b

\* a pipe: the bytes in flight and which of its two ends are open
NewPipe == [buf |-> <<>>, wopen |-> TRUE, ropen |-> TRUE]

\* the call under analysis: candidate list, program path and what that program does:
\*   "missing" cannot be spawned, "echo" copies stdin to stdout (/bin/cat),
\*   "silent" exits without reading or printing (/bin/false),
\*   "prints" reads stdin to its end and then prints a fixed text
PipePaths == {Str("/a"), Str("b"), <<"/", InvalidByte>>}

PipeCalls ==
    {c \in [path : SeqsUpTo(PipePaths, MaxPaths),
            script_path : {BinCat, BinFalse, NotExist, RPM_FIND_REQUIRES},
            programs : ProgramTables] :
        c.script_path # RPM_FIND_REQUIRES => c.programs[RPM_FIND_REQUIRES].kind = "missing"}

Program == arg.programs[arg.script_path]

\* what the parent leaves unused
PipeFrame ==
    UNCHANGED <<arg, mode, files, fs, idx, requires, opened, probes, analyzed, parserVars>>

InitPipe ==
    /\ pc = "spawn"
    /\ arg \in PipeCalls
    /\ ret = NoneValue
    /\ DispatcherIdle

\* Command::new(script_path).stdin(piped).stdout(piped).spawn(), then the join of
\* the file names that are valid UTF-8
Spawn ==
    /\ pc = "spawn"
    /\ spawned' = Append(spawned, arg.script_path)
    /\ IF Program.kind = "missing"
          THEN /\ pc' = "pipe_done"
               /\ result' = ProcessError(arg.script_path)
               /\ UNCHANGED pipeVars
          ELSE /\ pc' = "write"
               /\ child' = [state |-> "running", phase |-> "reading", hold |-> <<>>]
               /\ pin' = NewPipe
               /\ pout' = NewPipe
               /\ wbuf' = Join(SelectSeq(arg.path, IsUtf8), Str("\n"))
               /\ rbuf' = <<>>
               /\ UNCHANGED result
    /\ UNCHANGED ret
    /\ PipeFrame

\* write_all: the pipe takes as many bytes as it has room for
WriteChunk ==
    /\ pc = "write" /\ wbuf # <<>> /\ pin.ropen /\ Len(pin.buf) < PipeCap
    /\ LET n == Min(PipeCap - Len(pin.buf), Len(wbuf))
       IN  /\ pin' = [pin EXCEPT !.buf = @ \o SubSeq(wbuf, 1, n)]
           /\ wbuf' = SubSeq(wbuf, n + 1, Len(wbuf))
    /\ UNCHANGED <<pc, ret, result, spawned, child, pout, rbuf>>
    /\ PipeFrame

\* write_all: the read end is closed (SIGPIPE is ignored, write fails with EPIPE)
WriteBrokenPipe ==
    /\ pc = "write" /\ wbuf # <<>> /\ ~pin.ropen
    /\ result' = ProcessError(arg.script_path)
    /\ pin' = [pin EXCEPT !.wopen = FALSE]
    /\ pout' = [pout EXCEPT !.ropen = FALSE]
    /\ pc' = "pipe_done"
    /\ UNCHANGED <<ret, spawned, child, wbuf, rbuf>>
    /\ PipeFrame

\* write_all returns Ok(()) and the ChildStdin temporary is dropped
WriteDone ==
    /\ pc = "write" /\ wbuf = <<>>
    /\ pin' = [pin EXCEPT !.wopen = FALSE]
    /\ pc' = "read"
    /\ UNCHANGED <<ret, result, spawned, child, pout, wbuf, rbuf>>
    /\ PipeFrame

\* a complete line that is not UTF-8 has been read
UnreadableLine ==
    \E i, j \in 1..Len(rbuf) : i < j /\ rbuf[i] = InvalidByte /\ rbuf[j] = "\n"

\* reader.lines(): the BufReader takes what the pipe holds
ReadChunk ==
    /\ pc = "read" /\ ~UnreadableLine /\ pout.buf # <<>>
    /\ rbuf' = rbuf \o pout.buf
    /\ pout' = [pout EXCEPT !.buf = <<>>]
    /\ UNCHANGED <<pc, ret, result, spawned, child, pin, wbuf>>
    /\ PipeFrame

\* reader.lines(): Some(Err(e)) => return Err(ProcessError)
ReadError ==
    /\ pc = "read" /\ UnreadableLine
    /\ result' = ReadResult(rbuf, arg.script_path)
    /\ pout' = [pout EXCEPT !.ropen = FALSE]
    /\ pc' = "pipe_done"
    /\ UNCHANGED <<ret, spawned, child, pin, wbuf, rbuf>>
    /\ PipeFrame

\* reader.lines(): end of file, the loop breaks and the call returns
ReadEof ==
    /\ pc = "read" /\ ~UnreadableLine /\ pout.buf = <<>> /\ ~pout.wopen
    /\ result' = ReadResult(rbuf, arg.script_path)
    /\ pout' = [pout EXCEPT !.ropen = FALSE]
    /\ pc' = "pipe_done"
    /\ UNCHANGED <<ret, spawned, child, pin, wbuf, rbuf>>
    /\ PipeFrame

ChildFrame == UNCHANGED <<pc, ret, result, spawned, wbuf, rbuf>> /\ PipeFrame

ChildRunning ==
    /\ pc \in {"write", "read", "pipe_done"}
    /\ Program.kind # "missing"
    /\ child.state = "running"

\* the child reads what its stdin holds: "echo" keeps it for output, "prints" drops it
ChildRead ==
    /\ ChildRunning /\ Program.kind \in {"echo", "prints"}
    /\ child.phase = "reading" /\ child.hold = <<>> /\ pin.buf # <<>>
    /\ child' = [child EXCEPT !.hold = IF Program.kind = "echo" THEN pin.buf ELSE <<>>]
    /\ pin' = [pin EXCEPT !.buf = <<>>]
    /\ UNCHANGED pout
    /\ ChildFrame

\* the child sees the end of its stdin and starts to print
ChildEof ==
    /\ ChildRunning /\ Program.kind \in {"echo", "prints"}
    /\ child.phase = "reading" /\ child.hold = <<>> /\ pin.buf = <<>> /\ ~pin.wopen
    /\ child' = [child EXCEPT !.phase = "printing",
                              !.hold = IF Program.kind = "prints" THEN Program.out ELSE <<>>]
    /\ UNCHANGED <<pin, pout>>
    /\ ChildFrame

\* the child writes to its stdout
ChildWrite ==
    /\ ChildRunning /\ child.hold # <<>> /\ pout.ropen /\ Len(pout.buf) < PipeCap
    /\ LET n == Min(PipeCap - Len(pout.buf), Len(child.hold))
       IN  /\ pout' = [pout EXCEPT !.buf = @ \o SubSeq(child.hold, 1, n)]
           /\ child' = [child EXCEPT !.hold = SubSeq(@, n + 1, Len(@))]
    /\ UNCHANGED pin
    /\ ChildFrame

\* the child exits: at once ("silent"), when it has printed everything, or when
\* nobody reads its stdout any more; both of its pipe ends are closed
ChildExit ==
    /\ ChildRunning
    /\ \/ Program.kind = "silent"
       \/ child.phase = "printing" /\ child.hold = <<>>
       \/ child.hold # <<>> /\ ~pout.ropen
    /\ child' = [child EXCEPT !.state = "exited"]
    /\ pin' = [pin EXCEPT !.ropen = FALSE, !.buf = <<>>]
    /\ pout' = [pout EXCEPT !.wopen = FALSE]
    /\ ChildFrame

\* a second call with the same arguments; ret keeps what the first call returned
CallAgain ==
    /\ pc = "pipe_done" /\ ~ret.some
    /\ ret' = Some(result)
    /\ result' = NoneValue
    /\ child' = NoneValue /\ pin' = NoneValue /\ pout' = NoneValue
    /\ wbuf' = <<>> /\ rbuf' = <<>>
    /\ pc' = "spawn"
    /\ UNCHANGED spawned
    /\ PipeFrame

PipeNext ==
    \/ Spawn
    \/ WriteChunk
    \/ WriteBrokenPipe
    \/ WriteDone
    \/ ReadChunk
    \/ ReadError
    \/ ReadEof
    \/ ChildRead
    \/ ChildEof
    \/ ChildWrite
    \/ ChildExit
    \/ CallAgain

SpecPipe == InitPipe /\ [][PipeNext]_vars

---------------------------------------------------------------------------
(* Claims about the failures of the external-script adapter (checked under SpecPipe) *)

\* the three ways the call can fail, read off the final state: the program could
\* not be spawned, write_all stopped with bytes left, the output is not UTF-8
SpawnFailed == Program.kind = "missing"
WriteFailed == ~SpawnFailed /\ wbuf # <<>>
ReadFailed == ~SpawnFailed /\ ~IsUtf8(rbuf)

\* C11: when the program cannot be started the call returns Err(ProcessError) naming
\* the program; it is never Ok then, and an error of writing the child's stdin or of
\* reading its stdout gives the same variant; the call fails in no other way
C11_ProcessError ==
    pc = "pipe_done" =>
        /\ (SpawnFailed \/ WriteFailed \/ ReadFailed) => result = ProcessError(arg.script_path)
        /\ ~result.ok => /\ result = ProcessError(arg.script_path)
                         /\ SpawnFailed \/ WriteFailed \/ ReadFailed

C11_Witness ==
    /\ pc = "pipe_done"
    /\ arg.script_path = NotExist
    /\ arg.path = <<Str("/a")>>
    /\ result = ProcessError(NotExist)

C11_WitnessWrite ==
    /\ pc = "pipe_done"
    /\ arg.script_path = BinFalse
    /\ WriteFailed
    /\ result = ProcessError(BinFalse)

C11_WitnessRead ==
    /\ pc = "pipe_done"
    /\ arg.script_path = RPM_FIND_REQUIRES
    /\ ReadFailed
    /\ child.hold # <<>>
    /\ result = ProcessError(RPM_FIND_REQUIRES)

---------------------------------------------------------------------------
(* Claims about the lines the external-script adapter returns (checked under SpecScript) *)

\* what the spawned program printed during the call
ScriptStdout ==
    ChildStdout(arg.programs[arg.script_path], Join(SelectSeq(arg.path, IsUtf8), Str("\n")))

ScriptReturnedOk == pc = "script_ret" /\ ret.ok

\* the text between the newlines of the output; what follows the last newline counts
\* as a line only when it is not empty
NewlinePieces(text) ==
    LET pieces == Split(text, Str("\n"))
    IN  IF pieces[Len(pieces)] = <<>> THEN SubSeq(pieces, 1, Len(pieces) - 1) ELSE pieces

\* the same pieces, each one that a newline ends without a "\r" before that newline
TerminatorFree(text) ==
    LET pieces == Split(text, Str("\n"))
    IN  SelectSeq([i \in 1..Len(pieces) |->
                      IF i < Len(pieces) THEN StripCr(pieces[i]) ELSE pieces[i]],
                  IsNonEmpty)

\* C12 as stated: the result holds no empty string, and it is exactly the non-empty
\* lines of the output, verbatim, in order, duplicates kept
C12_Verbatim ==
    ScriptReturnedOk =>
        /\ \A i \in 1..Len(ret.val) : ret.val[i] # <<>>
        /\ ret.val = SelectSeq(NewlinePieces(ScriptStdout), IsNonEmpty)

\* C12 amended: the same, a line being the text before a newline without the
\* carriage return that directly precedes the newline
C12_VerbatimTerminatorFree ==
    ScriptReturnedOk =>
        /\ \A i \in 1..Len(ret.val) : ret.val[i] # <<>>
        /\ ret.val = TerminatorFree(ScriptStdout)

C12_Witness ==
    /\ ScriptReturnedOk
    /\ ScriptStdout = Str("/b/sh\n\nlibz.so.1\n/b/sh\n")
    /\ ret.val = <<Str("/b/sh"), Str("libz.so.1"), Str("/b/sh")>>

---------------------------------------------------------------------------
(* Claims about the interleavings of the call (checked under SpecPipe) *)

\* C13: with a program that starts, prints nothing and exits (as /bin/false does),
\* the call returns Ok with an empty list, whenever the child's exit falls relative
\* to the parent's write of the candidate list
C13_SilentExit ==
    (pc = "pipe_done" /\ Program.kind = "silent") => result = Ok(<<>>)

\* C14: two calls with the same candidates, the same program and the same output of
\* that program return identical results
C14_Deterministic ==
    (pc = "pipe_done" /\ ret.some) => result = ret.val

---------------------------------------------------------------------------
(* Claims about failures in builtin mode (checked under Spec) *)

BuiltinReturned == pc = "done" /\ mode = BuiltIn

\* ldd is run for candidate p and cannot be spawned or read
LddFails(p) ==
    /\ is_executable(Catalogue[p])
    /\ Catalogue[p].elf.some
    /\ ~LddOf(p, fs).some

FirstLddFailure == CHOOSE i \in 1..Len(files) :
    LddFails(files[i]) /\ \A j \in 1..(i - 1) : ~LddFails(files[j])

\* C15: in builtin mode, when ldd cannot be spawned or read for a candidate that is
\* an ELF file, the whole call returns Err(ProcessError) naming ldd: nothing gathered
\* from earlier candidates is returned and no later candidate is processed
C15_LddFailureAborts ==
    (BuiltinReturned /\ \E i \in 1..Len(files) : LddFails(files[i])) =>
        /\ result = ProcessError(Str("ldd"))
        /\ analyzed[Len(analyzed)] = <<"elf", files[FirstLddFailure]>>
        /\ \A j \in (FirstLddFailure + 1)..Len(files) :
              /\ <<"metadata", files[j]>> \notin Range(opened)
              /\ <<"open", files[j]>> \notin Range(opened)

C15_Witness ==
    /\ BuiltinReturned
    /\ fs.ldd_ok
    /\ files = <<Str("/b/sh"), Str("/b/bad")>>
    /\ requires # <<>>
    /\ result = ProcessError(Str("ldd"))

C15_WitnessFirst ==
    /\ BuiltinReturned
    /\ ~fs.ldd_ok
    /\ files = <<Str("/b/ls"), Str("/b/run")>>
    /\ result = ProcessError(Str("ldd"))

\* a candidate that both analyzers give up on: it cannot be opened, or it is not an
\* ELF file and has no shebang that resolves (an unreadable first line included)
SoftFailing(p) ==
    /\ is_executable(Catalogue[p])
    /\ \/ ~Catalogue[p].open
       \/ /\ ~Catalogue[p].elf.some
          /\ ~find_require_of_shebang(Catalogue[p], ExistingPaths(fs)).val.some

NotSoftFailing(p) == ~SoftFailing(p)

\* C16: in builtin mode a candidate that cannot be opened, is not a valid ELF file,
\* has no resolvable shebang or whose first line cannot be read contributes nothing:
\* the remaining candidates are still processed and the call returns Ok
C16_PerFileFailure ==
    (BuiltinReturned /\ \A i \in 1..Len(files) : ~LddFails(files[i])) =>
        /\ result.ok
        /\ \A i \in 1..Len(files) : <<"metadata", files[i]>> \in Range(opened)
        /\ result = builtin_find_requires(SelectSeq(files, NotSoftFailing), fs)

C16_Witness ==
    /\ BuiltinReturned
    /\ files = <<Str("/b/bin"), Str("/b/run")>>
    /\ SoftFailing(files[1])
    /\ result = Ok(<<Str("/b/sh")>>)

C16_WitnessUnopened ==
    /\ BuiltinReturned
    /\ files = <<Str("/b/x"), Str("/b/sh")>>
    /\ SoftFailing(files[1])
    /\ result.ok /\ Len(result.val) = 3

---------------------------------------------------------------------------
(* auto_req/mod.rs: impl TryFrom<String> for AutoReqMode *)

WrongMode == [ok |-> FALSE, err |-> "WrongMode"]

\* try_from taking every unknown value for the path of a script
try_from_any_path(value, exists) ==
    CASE value \in {Str("auto"), <<>>}           -> Ok(Auto)
      [] value \in {Str("no"), Str("disabled")}  -> Ok(Disabled)
      [] value = Str("builtin")                  -> Ok(BuiltIn)
      [] value = Str("find-requires")            -> Ok(Script(RPM_FIND_REQUIRES))
      [] OTHER                                   -> Ok(Script(value))

\* AutoReqMode::try_from: exists = the paths at which a filesystem entry exists
try_from(value, exists) ==
    CASE value \in {Str("auto"), <<>>}           -> Ok(Auto)
      [] value \in {Str("no"), Str("disabled")}  -> Ok(Disabled)
      [] value = Str("builtin")                  -> Ok(BuiltIn)
      [] value = Str("find-requires")            -> Ok(Script(RPM_FIND_REQUIRES))
      [] OTHER -> IF value \in exists THEN Ok(Script(value)) ELSE WrongMode

\* mode values given in the manifest or on the command line
ModeValues ==
    { Str("auto"), <<>>, Str("no"), Str("disabled"), Str("builtin"), Str("find-requires"),
      Str("src/auto_req/mod.rs"), Str("invalid-value"), Str("Auto"), Str("no "),
      Str("/bin/cat"), RPM_FIND_REQUIRES }

\* the entries of the filesystem; a file may be named like a keyword
ModeFsStates ==
    SUBSET {Str("src/auto_req/mod.rs"), Str("/bin/cat"), Str("auto"), Str("builtin"),
            RPM_FIND_REQUIRES}

InitTryFrom ==
    /\ pc = "try_from_call"
    /\ arg \in [value : ModeValues, exists : ModeFsStates]
    /\ ret = "-"
    /\ DispatcherIdle

CallTryFrom ==
    /\ pc = "try_from_call"
    /\ ret' = try_from(arg.value, arg.exists)
    /\ pc' = "try_from_ret"
    /\ UNCHANGED arg
    /\ DispatcherUnchanged

NextTryFrom == CallTryFrom

SpecTryFrom == InitTryFrom /\ [][NextTryFrom]_vars

ModeKeywords ==
    {Str("auto"), <<>>, Str("no"), Str("disabled"), Str("builtin"), Str("find-requires")}

\* C17: try_from maps "auto" and "" to Auto, "no" and "disabled" to Disabled,
\* "builtin" to BuiltIn and "find-requires" to Script(/usr/lib/rpm/find-requires);
\* any other string is Script(that string) when a filesystem entry exists at it and
\* is rejected with WrongMode otherwise
C17_TryFrom ==
    pc = "try_from_ret" =>
        /\ arg.value \in {Str("auto"), <<>>} => ret = Ok(Auto)
        /\ arg.value \in {Str("no"), Str("disabled")} => ret = Ok(Disabled)
        /\ arg.value = Str("builtin") => ret = Ok(BuiltIn)
        /\ arg.value = Str("find-requires") => ret = Ok(Script(RPM_FIND_REQUIRES))
        /\ (arg.value \notin ModeKeywords /\ arg.value \in arg.exists)
              => ret = Ok(Script(arg.value))
        /\ (arg.value \notin ModeKeywords /\ arg.value \notin arg.exists)
              => ret = WrongMode

C17_Witness ==
    /\ pc = "try_from_ret"
    /\ arg.value = Str("src/auto_req/mod.rs")
    /\ arg.exists = {Str("src/auto_req/mod.rs"), Str("auto")}
    /\ ret = Ok(Script(Str("src/auto_req/mod.rs")))

C17_WitnessWrongMode ==
    /\ pc = "try_from_ret"
    /\ arg.value = Str("invalid-value")
    /\ ret = WrongMode

---------------------------------------------------------------------------
(* config/metadata.rs: toml_dotted_bare_key_parser::parse_dotted_bare_keys *)

\* longest branch path of the model
MaxKeyLen == 4

InvalidDotChar == [ok |-> FALSE, err |-> "InvalidDotChar"]
QuotedKey(c) == [ok |-> FALSE, err |-> "QuotedKey", char |-> c]
InvalidChar(c) == [ok |-> FALSE, err |-> "InvalidChar", char |-> c]

\* str::bytes: the UTF-8 encoding, two bytes for the non-ASCII character
Utf8Bytes(s) ==
    LET enc(c) == IF c = NonAsciiChar THEN <<"0xC3", "0xA9">> ELSE <<c>>
    IN  Join(MapSeq(s, enc), <<>>)

\* `v as char` of a byte v
ByteAsChar(v) ==
    CASE v = "0xC3" -> "U+00C3"
      [] v = "0xA9" -> "U+00A9"
      [] OTHER      -> v

\* b.is_ascii_alphanumeric() || b == b'_' || b == b'-'
BareKeyBytes ==
    Range(Str("abcdefghijklmnopqrstuvwxyzABCDEFGHIJKLMNOPQRSTUVWXYZ0123456789_-"))

\* bytes().enumerate().skip(pos).take_while(bare).last(): the index of the last byte
\* of the run of bare-key bytes that starts at pos, NoneValue when the run is empty
KeyEnd(bytes, p) ==
    LET stop == {i \in p..(Len(bytes) - 1) : bytes[i + 1] \notin BareKeyBytes}
        end  == IF stop = {} THEN Len(bytes)
                ELSE CHOOSE i \in stop : \A j \in stop : i <= j
    IN  IF end = p THEN NoneValue ELSE Some(end - 1)

\* the error for the byte where a key should start
KeyStartError(v) ==
    CASE v \in {"\"", "'"} -> QuotedKey(ByteAsChar(v))
      [] v = "."           -> InvalidDotChar
      [] OTHER             -> InvalidChar(ByteAsChar(v))

\* branch paths given after '#': every text of up to MaxKeyLen of these characters
KeyChars == {"a", "9", "-", ".", "\"", "'", "*", NonAsciiChar}
KeyInputs == SeqsUpTo(KeyChars, MaxKeyLen)

ParserFrame ==
    UNCHANGED <<arg, mode, files, fs, idx, requires, result, spawned, opened, probes,
                analyzed, pipeVars>>

InitKeys ==
    /\ pc = "keys_loop"
    /\ arg \in KeyInputs
    /\ ret = NoneValue
    /\ DispatcherIdle

\* one iteration of the while loop that returns an error
ParseError ==
    /\ pc = "keys_loop" /\ pos < Len(Utf8Bytes(arg))
    /\ LET input   == Utf8Bytes(arg)
           key_end == KeyEnd(input, pos)
       IN  IF ~key_end.some
               THEN ret' = KeyStartError(input[pos + 1])
               ELSE /\ key_end.val # Len(input) - 1
                    /\ LET v == input[key_end.val + 2]
                       IN  IF v = "."
                               THEN /\ key_end.val + 1 = Len(input) - 1
                                    /\ ret' = InvalidDotChar
                               ELSE ret' = InvalidChar(ByteAsChar(v))
    /\ pc' = "keys_ret"
    /\ UNCHANGED <<pos, keys>>
    /\ ParserFrame

\* one iteration that pushes a key and goes on behind the dot that follows it
ParseKey ==
    /\ pc = "keys_loop" /\ pos < Len(Utf8Bytes(arg))
    /\ LET input   == Utf8Bytes(arg)
           key_end == KeyEnd(input, pos)
       IN  /\ key_end.some
           /\ key_end.val + 1 < Len(input) - 1
           /\ input[key_end.val + 2] = "."
           /\ keys' = Append(keys, SubSeq(input, pos + 1, key_end.val + 1))
           /\ pos' = key_end.val + 2
    /\ UNCHANGED <<pc, ret>>
    /\ ParserFrame

\* the iteration that pushes the key ending the input, and the break
ParseLastKey ==
    /\ pc = "keys_loop" /\ pos < Len(Utf8Bytes(arg))
    /\ LET input   == Utf8Bytes(arg)
           key_end == KeyEnd(input, pos)
       IN  /\ key_end.some
           /\ key_end.val = Len(input) - 1
           /\ keys' = Append(keys, SubSeq(input, pos + 1, key_end.val + 1))
           /\ ret' = Ok(keys')
    /\ pc' = "keys_ret"
    /\ UNCHANGED pos
    /\ ParserFrame

\* the loop condition fails: Ok(keys)
ParseExit ==
    /\ pc = "keys_loop" /\ ~(pos < Len(Utf8Bytes(arg)))
    /\ ret' = Ok(keys)
    /\ pc' = "keys_ret"
    /\ UNCHANGED <<pos, keys>>
    /\ ParserFrame

NextKeys ==
    \/ ParseError
    \/ ParseKey
    \/ ParseLastKey
    \/ ParseExit

SpecKeys == InitKeys /\ [][NextKeys]_vars

\* the loop runs whenever it can
FairSpecKeys == SpecKeys /\ WF_vars(NextKeys)

---------------------------------------------------------------------------
(* Claims about parse_dotted_bare_keys (checked under SpecKeys) *)

KeysReturned == pc = "keys_ret"

\* a non-empty sequence of non-empty bare keys separated by single dots
IsBareKey(k) == k # <<>> /\ Range(k) \subseteq BareKeyBytes
WellFormedKeys(s) ==
    LET parts == Split(s, Str("."))
    IN  \A i \in 1..Len(parts) : IsBareKey(parts[i])

\* the first character that cannot go on a well-formed input, and the error for it
AtKeyStart(s, p) == p = 1 \/ s[p - 1] = "."
Offending(s, p) ==
    IF AtKeyStart(s, p) THEN s[p] \notin BareKeyBytes
    ELSE \/ s[p] \notin BareKeyBytes \cup {"."}
         \/ s[p] = "." /\ p = Len(s)
FirstOffending(s) ==
    CHOOSE p \in 1..Len(s) : Offending(s, p) /\ \A q \in 1..(p - 1) : ~Offending(s, q)
ExpectedKeyError(s) ==
    LET p == FirstOffending(s)
    IN  CASE s[p] = "."                                 -> InvalidDotChar
          [] s[p] \in {"\"", "'"} /\ AtKeyStart(s, p)   -> QuotedKey(s[p])
          [] OTHER                                      -> InvalidChar(s[p])

\* C19 (result): Ok(keys) exactly for a non-empty sequence of non-empty bare keys
\* separated by single dots, and then joining the keys with '.' gives back the input;
\* a leading, trailing or doubled dot yields InvalidDotChar, a quote where a key
\* should start yields QuotedKey, any other illegal character InvalidChar of it
C19_DottedBareKeys ==
    KeysReturned =>
        /\ ret.ok <=> WellFormedKeys(arg)
        /\ ret.ok => Join(ret.val, Str(".")) = arg
        /\ ~WellFormedKeys(arg) => ret = ExpectedKeyError(arg)

\* the same for the inputs that are not empty and hold ASCII characters only
C19_DottedBareKeysAscii ==
    (KeysReturned /\ arg # <<>> /\ NonAsciiChar \notin Range(arg)) =>
        /\ ret.ok <=> WellFormedKeys(arg)
        /\ ret.ok => Join(ret.val, Str(".")) = arg /\ ret.val = Split(arg, Str("."))
        /\ ~WellFormedKeys(arg) => ret = ExpectedKeyError(arg)

\* C19 (termination): every call returns
C19_Terminates == <>KeysReturned

\* the illegal character is not ASCII: the call reports its first byte
C19_NonAsciiReported ==
    (KeysReturned /\ arg = <<"a", ".", NonAsciiChar>>) => ret = InvalidChar("U+00C3")

\* the empty input: Ok with no key
C19_EmptyInput == (KeysReturned /\ arg = <<>>) => ret = Ok(<<>>)

---------------------------------------------------------------------------
(* config/metadata.rs: MetadataConfig and CompoundMetadataConfig::get *)

\* most metadata sources in one lookup
MaxSources == 2

WrongType(toml_path, type_name) ==
    [ok |-> FALSE, err |-> "WrongType", path |-> toml_path, type |-> type_name]

\* i64::to_string
RECURSIVE NatToString(_)
NatToString(n) ==
    IF n < 10 THEN <<Str("0123456789")[n + 1]>>
    ELSE Append(NatToString(n \div 10), Str("0123456789")[(n % 10) + 1])
I64ToString(v) == IF v < 0 THEN Str("-") \o NatToString(0 - v) ELSE NatToString(v)

\* MetadataConfig::create_config_error
create_config_error(item, name, type_name) ==
    WrongType(IF item.branch_path.some
                  THEN Join(<<item.branch_path.val, name>>, Str("."))
                  ELSE name,
              type_name)

\* the getters of impl TomlValueHelper for MetadataConfig; a toml value is
\* [type, int | str | bool], the table a function from its keys
get_str(item, name) ==
    IF name \notin DOMAIN item.metadata THEN Ok(NoneValue)
    ELSE IF item.metadata[name].type = "String" THEN Ok(Some(item.metadata[name].str))
    ELSE create_config_error(item, name, "string")

get_i64(item, name) ==
    IF name \notin DOMAIN item.metadata THEN Ok(NoneValue)
    ELSE IF item.metadata[name].type = "Integer" THEN Ok(Some(item.metadata[name].int))
    ELSE create_config_error(item, name, "integer")

get_string_or_i64(item, name) ==
    IF name \notin DOMAIN item.metadata THEN Ok(NoneValue)
    ELSE CASE item.metadata[name].type = "String"  -> Ok(Some(item.metadata[name].str))
           [] item.metadata[name].type = "Integer" ->
                  Ok(Some(I64ToString(item.metadata[name].int)))
           [] OTHER -> create_config_error(item, name, "string or integer")

\* the closure handed to CompoundMetadataConfig::get
ApplyGetter(getter, item, name) ==
    CASE getter = "get_str"           -> get_str(item, name)
      [] getter = "get_i64"           -> get_i64(item, name)
      [] getter = "get_string_or_i64" -> get_string_or_i64(item, name)

\* CompoundMetadataConfig::get walking the sources from the first one
RECURSIVE CompoundGetFirstWins(_, _, _)
CompoundGetFirstWins(config, getter, name) ==
    IF config = <<>> THEN Ok(NoneValue)
    ELSE LET v == ApplyGetter(getter, Head(config), name)
         IN  IF v.ok /\ ~v.val.some THEN CompoundGetFirstWins(Tail(config), getter, name)
             ELSE v

\* CompoundMetadataConfig::get: for item in self.config.iter().rev()
RECURSIVE CompoundGet(_, _, _)
CompoundGet(config, getter, name) ==
    IF config = <<>> THEN Ok(NoneValue)
    ELSE LET v == ApplyGetter(getter, config[Len(config)], name)
         IN  IF v.ok /\ ~v.val.some
                 THEN CompoundGet(SubSeq(config, 1, Len(config) - 1), getter, name)
                 ELSE v

\* metadata tables: a may be absent, an integer, a string or a boolean, b absent or
\* an integer
TomlValuesOfA ==
    { [type |-> "Integer", int |-> 1], [type |-> "Integer", int |-> 256],
      [type |-> "String", str |-> Str("x")], [type |-> "Boolean", bool |-> FALSE] }

MetadataTables ==
    { [k \in {} |-> NoneValue] }
        \cup { [k \in {Str("a")} |-> va] : va \in TomlValuesOfA }
        \cup { [k \in {Str("b")} |-> [type |-> "Integer", int |-> 3]] }
        \cup { [k \in {Str("a"), Str("b")} |->
                   IF k = Str("a") THEN va ELSE [type |-> "Integer", int |-> 3]] :
               va \in TomlValuesOfA }

MetadataSources ==
    [metadata : MetadataTables, branch_path : {NoneValue, Some(Str("variants.x"))}]

InitCompound ==
    /\ pc = "get_call"
    /\ arg \in [config : SeqsUpTo(MetadataSources, MaxSources),
                getter : {"get_str", "get_i64", "get_string_or_i64"},
                name : {Str("a"), Str("b"), Str("not-exist")}]
    /\ ret = "-"
    /\ DispatcherIdle

\* one lookup through impl TomlValueHelper for CompoundMetadataConfig
CallCompound ==
    /\ pc = "get_call"
    /\ ret' = CompoundGet(arg.config, arg.getter, arg.name)
    /\ pc' = "get_ret"
    /\ UNCHANGED arg
    /\ DispatcherUnchanged

NextCompound == CallCompound

SpecCompound == InitCompound /\ [][NextCompound]_vars

---------------------------------------------------------------------------
(* Claims about CompoundMetadataConfig (checked under SpecCompound) *)

\* the sources that define the key
Defining == {i \in 1..Len(arg.config) : arg.name \in DOMAIN arg.config[i].metadata}
LastDefining == CHOOSE i \in Defining : \A j \in Defining : j <= i

\* the value of the key in source i has the type the getter asks for
WellTyped(i) ==
    LET t == arg.config[i].metadata[arg.name].type
    IN  CASE arg.getter = "get_str"           -> t = "String"
          [] arg.getter = "get_i64"           -> t = "Integer"
          [] arg.getter = "get_string_or_i64" -> t \in {"String", "Integer"}

\* C18: the lookup returns the value of the last source that defines the key, None
\* only when no source defines it, and the WrongType error of the last defining
\* source when that one holds a value of the wrong type, even if an earlier source
\* holds a well typed one
C18_LastSourceWins ==
    pc = "get_ret" =>
        /\ ret = Ok(NoneValue) <=> Defining = {}
        /\ Defining # {} =>
              /\ ret = ApplyGetter(arg.getter, arg.config[LastDefining], arg.name)
              /\ WellTyped(LastDefining) <=> ret.ok
              /\ ~WellTyped(LastDefining) =>
                    /\ ret.err = "WrongType"
                    /\ ret.path = IF arg.config[LastDefining].branch_path.some
                                      THEN arg.config[LastDefining].branch_path.val
                                               \o Str(".") \o arg.name
                                      ELSE arg.name

C18_Witness ==
    /\ pc = "get_ret"
    /\ arg.getter = "get_i64" /\ arg.name = Str("a")
    /\ Len(arg.config) = 2
    /\ arg.config[1].metadata = [k \in {Str("a")} |-> [type |-> "Integer", int |-> 1]]
    /\ arg.config[2].metadata = [k \in {Str("a")} |-> [type |-> "String", str |-> Str("x")]]
    /\ arg.config[2].branch_path.some
    /\ ret = WrongType(Str("variants.x.a"), "integer")

C18_WitnessOverride ==
    /\ pc = "get_ret"
    /\ arg.getter = "get_string_or_i64" /\ arg.name = Str("a")
    /\ Len(arg.config) = 2
    /\ arg.config[1].metadata = [k \in {Str("a")} |-> [type |-> "Integer", int |-> 1]]
    /\ arg.config[2].metadata = [k \in {Str("a")} |-> [type |-> "Integer", int |-> 256]]
    /\ ret = Ok(Some(Str("256")))

---------------------------------------------------------------------------
(* cli.rs: Cli::extra_metadata over what clap parsed *)

\* most option occurrences on one command line
MaxArgs == 3

File(file, branch) == [kind |-> "File", file |-> file, branch |-> branch]
Text(text) == [kind |-> "Text", text |-> text]
Variant(name) == [kind |-> "Variant", name |-> name]

\* the values of one occurrence: split at ',' for an option with value_delimiter
OccurrenceValues(occ) ==
    IF occ.id \in {"metadata_overwrite", "variant"} THEN Split(occ.value, Str(","))
    ELSE <<occ.value>>

\* clap's view of a command line (a list of [id, value] occurrences behind argv[0]):
\* the <<index, id, value>> of every value; the option name takes one index and
\* each value the next one
RECURSIVE ClapValues(_, _)
ClapValues(line, next) ==
    IF line = <<>> THEN <<>>
    ELSE LET vs == OccurrenceValues(Head(line))
         IN  [k \in 1..Len(vs) |-> <<next + 1 + k, Head(line).id, vs[k]>>]
                 \o ClapValues(Tail(line), next + 1 + Len(vs))

\* the field of Cli for one option zipped with ArgMatches::indices_of
ZipWithIndices(line, id) ==
    LET OfId(t) == t[2] = id
        Pair(t) == <<t[3], t[1]>>
    IN  MapSeq(SelectSeq(ClapValues(line, 0), OfId), Pair)

\* str::split_once('#') and the File source made of it
FileSource(v) ==
    IF Contains(v, Str("#"))
        THEN File(BeforeFirst(v, Str("#")), Some(AfterFirst(v, Str("#"))))
        ELSE File(v, NoneValue)

\* slice::sort_by_key on the index: a stable insertion sort
RECURSIVE SortByIndex(_)
SortByIndex(s) ==
    IF s = <<>> THEN <<>>
    ELSE LET rest  == SortByIndex(SubSeq(s, 1, Len(s) - 1))
             x     == s[Len(s)]
             NotAfter(t) == t[1] <= x[1]
             After(t)    == t[1] > x[1]
         IN  SelectSeq(rest, NotAfter) \o <<x>> \o SelectSeq(rest, After)

\* the three loops of extra_metadata: <<index, source>> pairs grouped by option
ExtraMetadataArgs(line) ==
    LET AsFile(p)    == <<p[2], FileSource(p[1])>>
        AsText(p)    == <<p[2], Text(p[1])>>
        AsVariant(p) == <<p[2], Variant(p[1])>>
    IN  MapSeq(ZipWithIndices(line, "metadata_overwrite"), AsFile)
            \o MapSeq(ZipWithIndices(line, "set_metadata"), AsText)
            \o MapSeq(ZipWithIndices(line, "variant"), AsVariant)

\* extra_metadata without the sort
extra_metadata_grouped(line) ==
    LET Second(p) == p[2]
    IN  MapSeq(ExtraMetadataArgs(line), Second)

\* Cli::extra_metadata
extra_metadata(line) ==
    LET Second(p) == p[2]
    IN  MapSeq(SortByIndex(ExtraMetadataArgs(line)), Second)

\* option occurrences of the command lines of the model
Occurrences ==
    { [id |-> "metadata_overwrite", value |-> Str("f1")],
      [id |-> "metadata_overwrite", value |-> Str("f2#t.p")],
      [id |-> "metadata_overwrite", value |-> Str("f3#a#b,f4")],
      [id |-> "set_metadata", value |-> Str("k = 1")],
      [id |-> "set_metadata", value |-> Str("a,b#c")],
      [id |-> "variant", value |-> Str("v1,v2")],
      [id |-> "variant", value |-> Str("v3")] }

InitCli ==
    /\ pc = "cli_call"
    /\ arg \in SeqsUpTo(Occurrences, MaxArgs)
    /\ ret = "-"
    /\ DispatcherIdle

CallExtraMetadata ==
    /\ pc = "cli_call"
    /\ ret' = extra_metadata(arg)
    /\ pc' = "cli_ret"
    /\ UNCHANGED arg
    /\ DispatcherUnchanged

NextCli == CallExtraMetadata

SpecCli == InitCli /\ [][NextCli]_vars

---------------------------------------------------------------------------
(* Claims about Cli::extra_metadata (checked under SpecCli) *)

\* the sources one occurrence stands for, in written order
SourcesOf(occ) ==
    LET vs == OccurrenceValues(occ)
    IN  [k \in 1..Len(vs) |->
            CASE occ.id = "metadata_overwrite" ->
                     LET i == FindStr(vs[k], Str("#"))
                     IN  IF i = 0 THEN File(vs[k], NoneValue)
                         ELSE File(SubSeq(vs[k], 1, i - 1),
                                   Some(SubSeq(vs[k], i + 1, Len(vs[k]))))
              [] occ.id = "set_metadata" -> Text(vs[k])
              [] occ.id = "variant"      -> Variant(vs[k])]

RECURSIVE InLineOrder(_)
InLineOrder(line) ==
    IF line = <<>> THEN <<>> ELSE SourcesOf(Head(line)) \o InLineOrder(Tail(line))

\* C20: extra_metadata returns the --metadata-overwrite, --set-metadata and --variant
\* values as one list in command-line order, not grouped by option; the comma
\* separated values of one occurrence stay adjacent and in written order, and
\* "file#branch" is split at the first '#' into File(file, Some(branch))
C20_CommandLineOrder ==
    pc = "cli_ret" => ret = InLineOrder(arg)

C20_Witness ==
    /\ pc = "cli_ret"
    /\ arg = << [id |-> "variant", value |-> Str("v1,v2")],
                [id |-> "set_metadata", value |-> Str("a,b#c")],
                [id |-> "metadata_overwrite", value |-> Str("f3#a#b,f4")] >>
    /\ ret = << Variant(Str("v1")), Variant(Str("v2")), Text(Str("a,b#c")),
                File(Str("f3"), Some(Str("a#b"))), File(Str("f4"), NoneValue) >>

---------------------------------------------------------------------------
(* Claims about the branches of the builtin loop (checked under Spec) *)

\* what one candidate adds to the result: nothing when it is not executable, its
\* ldd-derived requirements when it parses as ELF, else its shebang interpreter
Contribution(p) ==
    LET f == Catalogue[p]
    IN  IF ~is_executable(f) THEN <<>>
        ELSE IF f.elf.some
            THEN SortedSeq(find_requires_of_elf(p, f.elf, LddOf(p, fs)).val.val)
            ELSE LET sb == find_require_of_shebang(f, ExistingPaths(fs))
                 IN  IF sb.val.some THEN <<sb.val.val>> ELSE <<>>

RECURSIVE Contributions(_)
Contributions(path) ==
    IF path = <<>> THEN <<>> ELSE Contribution(Head(path)) \o Contributions(Tail(path))

\* C21: in builtin mode each executable candidate takes exactly one branch: one that
\* parses as ELF contributes only its ldd-derived requirements and is never handed to
\* the shebang analyzer, even when it has no requirement; any other contributes at
\* most one requirement, its shebang interpreter
C21_OneBranch ==
    BuiltinReturned =>
        /\ \A i \in 1..Len(files) :
              Catalogue[files[i]].elf.some => <<"shebang", files[i]>> \notin Range(analyzed)
        /\ \A i \in 1..Len(files) :
              (is_executable(Catalogue[files[i]]) /\ ~Catalogue[files[i]].elf.some)
                  => Len(Contribution(files[i])) <= 1
        /\ result.ok => result.val = Contributions(files)

C21_Witness ==
    /\ BuiltinReturned
    /\ files = <<Str("/b/st"), Str("/b/run")>>
    /\ analyzed = << <<"elf", Str("/b/st")>>, <<"elf", Str("/b/run")>>,
                     <<"shebang", Str("/b/run")>> >>
    /\ result = Ok(<<Str("/b/sh")>>)

---------------------------------------------------------------------------
(* Further claims about find_requires_of_elf (checked under SpecElf) *)

HasSection(type) == \E i \in 1..Len(arg.elf.val.shtypes) : arg.elf.val.shtypes[i] = type

\* C22: the result of find_requires_of_elf contains "rtld(GNU_HASH)" exactly when the
\* file has a section of type SHT_GNU_HASH and none of type SHT_HASH, and the
\* sentinel is never followed by the architecture marker
C22_Sentinel ==
    ElfReturned =>
        /\ RtldGnuHash \in ret.val.val <=> (HasSection(SHT_GNU_HASH) /\ ~HasSection(SHT_HASH))
        /\ \A r \in ret.val.val : StartsWith(r, Str("rtld")) => r = RtldGnuHash

C22_Witness ==
    /\ ElfReturned
    /\ arg.elf.val = [class |-> "ELF64", machine |-> 62, shtypes |-> <<SHT_GNU_HASH>>]
    /\ arg.ldd = Some(Str("\tlibc.so.6 => /l/libc.so.6 (0x1)"))
    /\ ret.val.val = {Str("libc.so.6()(64bit)"), Str("rtld(GNU_HASH)")}

C22_WitnessBothSections ==
    /\ ElfReturned
    /\ arg.elf.val.shtypes = <<SHT_GNU_HASH, 1, SHT_HASH>>
    /\ arg.ldd = Some(Str("\tlibc.so.6 => /l/libc.so.6 (0x1)"))
    /\ RtldGnuHash \notin ret.val.val

\* the candidates of both passes that skip_so_name accepts
AcceptedCandidates ==
    Range(SelectSeq(UnversionedLibraries(arg.ldd.val)
                      \o VersionedLibraries(arg.ldd.val, BinPath), skip_so_name))

ArchMarker == UnwrapOrDefault(ElfInfo_marker(ElfInfoNew(arg.elf.val)))

\* the requirements the claim lists for one accepted candidate
EmittedFor(c) ==
    IF Contains(c, Str(" ("))
        THEN { BeforeFirst(c, Str(" ")) \o Str("()") \o ArchMarker,
               RemoveSpaces(c) \o ArchMarker }
        ELSE { c \o Str("()") \o ArchMarker }

\* C23: an accepted candidate with a parenthesised annotation gives both
\* "<base>()<marker>" (base = the text before the first space) and the candidate
\* without its spaces followed by the marker; one without annotation gives only
\* "<candidate>()<marker>"; so a versioned requirement never comes without the
\* unversioned requirement of the same soname
C23_BothForms ==
    ElfReturned =>
        /\ ret.val.val \ {RtldGnuHash} = UNION {EmittedFor(c) : c \in AcceptedCandidates}
        /\ \A r \in ret.val.val \ {RtldGnuHash} :
              BeforeFirst(r, Str("(")) \o Str("()") \o ArchMarker \in ret.val.val

C23_Witness ==
    /\ ElfReturned
    /\ arg.elf.val = [class |-> "ELF64", machine |-> 62, shtypes |-> <<SHT_HASH>>]
    /\ arg.ldd = Some(Str("\tVersion information:\n\t/b/sh:\n\t\tlibc.so.6 (GLIBC_2.4) => /l/libc.so.6"))
    /\ ret.val.val = {Str("libc.so.6()(64bit)"), Str("libc.so.6(GLIBC_2.4)(64bit)")}

C23_WitnessPlain ==
    /\ ElfReturned
    /\ arg.elf.val = [class |-> "ELF32", machine |-> 3, shtypes |-> <<SHT_HASH>>]
    /\ arg.ldd = Some(Str("\tlibc.so.6 => /l/libc.so.6 (0x1)"))
    /\ ret.val.val = {Str("libc.so.6()")}

---------------------------------------------------------------------------
(* The two parsing passes of find_requires_by_ldd on their own *)

MaxBlockLines == 5

\* lines of the library list of ldd, among them tokens that are no sonames
TokenLines ==
    { Str("\tlibc.so.6 => /l/libc.so.6 (0x1)"),
      Str("\tlinux-vdso.so.1 (0x1)"),
      Str("\t/lib64/ld-linux-x86-64.so.2 (0x1)"),
      Str("\tnot a dynamic executable"),
      Str("\tlibq.so.1\t=> /l/libq.so.1"),
      Str(" \t"),
      <<>> }

\* lines of the version section of ldd -v: the block of BinPath and of a library
BlockLines ==
    { Str("\tVersion information:"),
      Str("\t/b/sh:"),
      Str("\t\tlibc.so.6 (GLIBC_2.4) => /l/libc.so.6"),
      Str("\t/l/libc.so.6:"),
      Str("\t\tld-linux.so.2 (GLIBC_2.3) => /l/ld-linux.so.2") }

LddTexts ==
    {Join(ls, Str("\n")) : ls \in SeqsUpTo(TokenLines, MaxLddLines)}
        \cup {Join(ls, Str("\n")) : ls \in SeqsUpTo(BlockLines, MaxBlockLines)}

InitLdd ==
    /\ pc = "ldd_call"
    /\ arg \in LddTexts
    /\ ret = NoneValue
    /\ DispatcherIdle

\* the unversioned pass over ldd's stdout
CallUnversioned ==
    /\ pc = "ldd_call"
    /\ ret' = UnversionedLibraries(arg)
    /\ pc' = "unversioned_ret"
    /\ UNCHANGED arg
    /\ DispatcherUnchanged

\* the versioned pass over ldd's stdout
CallVersioned ==
    /\ pc = "ldd_call"
    /\ ret' = VersionedLibraries(arg, BinPath)
    /\ pc' = "versioned_ret"
    /\ UNCHANGED arg
    /\ DispatcherUnchanged

\* find_requires_by_ldd(BinPath, None) after ldd printed arg
CallByLdd ==
    /\ pc = "ldd_call"
    /\ ret' = find_requires_by_ldd(BinPath, NoneValue, Some(arg))
    /\ pc' = "by_ldd_ret"
    /\ UNCHANGED arg
    /\ DispatcherUnchanged

NextLdd == CallUnversioned \/ CallVersioned \/ CallByLdd

SpecLdd == InitLdd /\ [][NextLdd]_vars

---------------------------------------------------------------------------
(* Claims about the passes (checked under SpecLdd) *)

OutputLines == Split(arg, Str("\n"))

SonamePrefixes == {Str("ld."), Str("ld-"), Str("ld64."), Str("ld64-"), Str("lib")}

IsSoname(c) == Contains(c, Str(".so")) /\ \E pre \in SonamePrefixes : StartsWith(c, pre)

AllCandidates == Range(UnversionedLibraries(arg)) \cup Range(VersionedLibraries(arg, BinPath))

\* tokens ldd prints that are neither a library soname nor a loader soname
OtherTokens == {Str("linux-vdso.so.1"), Str("not"), Str("/lib64/ld-linux-x86-64.so.2")}

\* C24: a candidate of either pass gives a requirement only if it contains ".so" and
\* begins with "ld.", "ld-", "ld64.", "ld64-" or "lib"; every other token ldd prints
\* ("linux-vdso.so.1", "not", an absolute path) gives none
C24_AcceptedOnly ==
    pc = "by_ldd_ret" =>
        /\ ret.val = UNION {RequiresOfName(c, <<>>) : c \in {d \in AllCandidates : IsSoname(d)}}
        /\ \A r \in ret.val : \E pre \in SonamePrefixes : StartsWith(r, pre)
        /\ \A r \in ret.val : \A t \in OtherTokens : ~StartsWith(r, t)

C24_Witness ==
    /\ pc = "by_ldd_ret"
    /\ arg = Str("\tlinux-vdso.so.1 (0x1)\n\tlibc.so.6 => /l/libc.so.6 (0x1)\n\t/lib64/ld-linux-x86-64.so.2 (0x1)")
    /\ ret = Ok({Str("libc.so.6()")})

C24_WitnessNot ==
    /\ pc = "by_ldd_ret"
    /\ arg = Str("\tnot a dynamic executable")
    /\ ret = Ok({})

\* the lines before the first blank (empty or whitespace-only) line
LinesBeforeBlank ==
    LET ls    == OutputLines
        blank == {i \in 1..Len(ls) : \A j \in 1..Len(ls[i]) : IsWhitespace(ls[i][j])}
        first == IF blank = {} THEN Len(ls) + 1
                 ELSE CHOOSE i \in blank : \A k \in blank : i <= k
    IN  SubSeq(ls, 1, first - 1)

\* the text of a line from its first non-whitespace character on
FromFirstWord(line) ==
    LET word == {j \in 1..Len(line) : ~IsWhitespace(line[j])}
    IN  IF word = {} THEN <<>>
        ELSE SubSeq(line, CHOOSE j \in word : \A k \in word : j <= k, Len(line))

\* the first token of a line when any whitespace character ends a token
WhitespaceToken(line) ==
    LET rest == FromFirstWord(line)
        ws   == {j \in 1..Len(rest) : IsWhitespace(rest[j])}
    IN  IF ws = {} THEN rest
        ELSE SubSeq(rest, 1, (CHOOSE j \in ws : \A k \in ws : j <= k) - 1)

\* the first token of a line when only the space character ends a token
SpaceToken(line) ==
    LET rest == FromFirstWord(line)
        sp   == {j \in 1..Len(rest) : rest[j] = " "}
    IN  IF sp = {} THEN rest
        ELSE SubSeq(rest, 1, (CHOOSE j \in sp : \A k \in sp : j <= k) - 1)

\* C25 as stated: the unversioned pass takes the first whitespace-delimited token of
\* every line before the first blank line and nothing from that line on
C25_UnversionedPass ==
    pc = "unversioned_ret" =>
        LET ls == LinesBeforeBlank
        IN  ret = [i \in 1..Len(ls) |-> WhitespaceToken(ls[i])]

\* C25 amended: the unversioned pass takes, from every line before the first blank
\* line, the text between the leading whitespace and the first space character,
\* and nothing from the first blank line on
C25_UnversionedPassSpace ==
    pc = "unversioned_ret" =>
        LET ls == LinesBeforeBlank
        IN  ret = [i \in 1..Len(ls) |-> SpaceToken(ls[i])]

C25_Witness ==
    /\ pc = "unversioned_ret"
    /\ arg = Str("\tlibc.so.6 => /l/libc.so.6 (0x1)\n \t\n\tlinux-vdso.so.1 (0x1)")
    /\ ret = <<Str("libc.so.6")>>

C25_WitnessLeadingBlank ==
    /\ pc = "unversioned_ret"
    /\ arg = Str("\n\tlibc.so.6 => /l/libc.so.6 (0x1)")
    /\ ret = <<>>

C25_WitnessTab ==
    /\ pc = "unversioned_ret"
    /\ arg = Str("\tlibq.so.1\t=> /l/libq.so.1")
    /\ ret = <<Str("libq.so.1\t=>")>>

\* the least element of a non-empty set of line numbers
First(S) == CHOOSE i \in S : \A k \in S : i <= k

\* the " => " lines directly after the first line naming BinPath that follows the
\* "Version information:" line, up to the first line without " => "
VersionRun ==
    LET ls      == OutputLines
        headers == {i \in 1..Len(ls) : Contains(ls[i], Str("Version information:"))}
        paths   == IF headers = {} THEN {}
                   ELSE {i \in (First(headers) + 1)..Len(ls) : Contains(ls[i], BinPath)}
        plain   == IF paths = {} THEN {}
                   ELSE {i \in (First(paths) + 1)..Len(ls) : ~Contains(ls[i], Str(" => "))}
        last    == IF plain = {} THEN Len(ls) ELSE First(plain) - 1
    IN  IF paths = {} THEN <<>> ELSE SubSeq(ls, First(paths) + 1, last)

\* C26: the versioned pass yields candidates only from the unbroken run of " => "
\* lines directly after the first line naming the analysed path that follows the
\* "Version information:" line; it stops at the first line without " => ", so the
\* blocks of dependent libraries give nothing, and so does an output without the
\* header or without a later line naming the path
C26_VersionedPass ==
    pc = "versioned_ret" =>
        LET run == VersionRun
        IN  ret = [i \in 1..Len(run) |-> BeforeArrow(run[i])]

C26_Witness ==
    /\ pc = "versioned_ret"
    /\ arg = Str("\tVersion information:\n\t/b/sh:\n\t\tlibc.so.6 (GLIBC_2.4) => /l/libc.so.6\n\t/l/libc.so.6:\n\t\tld-linux.so.2 (GLIBC_2.3) => /l/ld-linux.so.2")
    /\ ret = <<Str("libc.so.6 (GLIBC_2.4)")>>

C26_WitnessNoHeader ==
    /\ pc = "versioned_ret"
    /\ arg = Str("\t/b/sh:\n\t\tlibc.so.6 (GLIBC_2.4) => /l/libc.so.6")
    /\ ret = <<>>

C26_WitnessNoPath ==
    /\ pc = "versioned_ret"
    /\ arg = Str("\t/b/sh:\n\tVersion information:\n\t/l/libc.so.6:\n\t\tld-linux.so.2 (GLIBC_2.3) => /l/ld-linux.so.2")
    /\ ret = <<>>

---------------------------------------------------------------------------
(* A further claim about the shebang analyzer (checked under SpecShebang) *)

\* what follows "#!" on the first line, without the line terminator
FirstLineRemainder ==
    LET rest == SubSeq(arg.content, 3, Len(arg.content))
        nl   == {j \in 1..Len(rest) : rest[j] = "\n"}
    IN  IF nl = {} THEN rest ELSE SubSeq(rest, 1, First(nl) - 1)

\* the longest prefix of ASCII characters that are not whitespace
AsciiWord(s) ==
    LET stop == {j \in 1..Len(s) : ~IsAscii(s[j]) \/ IsWhitespace(s[j])}
    IN  IF stop = {} THEN s ELSE SubSeq(s, 1, First(stop) - 1)

InterpreterCandidate == AsciiWord(FromFirstWord(FirstLineRemainder))

ShebangLineRead ==
    /\ pc = "shebang_ret"
    /\ arg.open /\ arg.ioerr = "none"
    /\ StartsWith(arg.content, Str("#!"))

\* C27: for a file starting with "#!" the interpreter candidate is the leading run
\* of ASCII non-whitespace characters of the trimmed remainder of the first line:
\* whitespace after "#!" is skipped, arguments are dropped, later lines are never
\* read, and an empty remainder yields None
C27_InterpreterCandidate ==
    ShebangLineRead =>
        LET candidate == InterpreterCandidate
        IN  /\ ret = IF candidate \in arg.exists THEN Ok(Some(candidate)) ELSE Ok(NoneValue)
            /\ candidate = <<>> => ret = Ok(NoneValue)

C27_Witness ==
    /\ ShebangLineRead
    /\ arg.content = Str("#! \t/b/env -x\n#!/b/env\n")
    /\ arg.exists = {Str("/b/"), Str("/b/env")}
    /\ ret = Ok(Some(Str("/b/env")))

C27_WitnessEmpty ==
    /\ ShebangLineRead
    /\ arg.content = Str("#!\n/b/sh\n")
    /\ arg.exists = {Str("/b/"), Str("/b/sh")}
    /\ ret = Ok(NoneValue)

---------------------------------------------------------------------------
(* Claims about the protocol of the external-script call (checked under SpecPipe) *)

\* the candidate names that are valid UTF-8, in list order
Utf8Names == SelectSeq(arg.path, IsUtf8)

\* the pieces of a text between newlines; the empty text has none
NamesIn(text) == IF text = <<>> THEN <<>> ELSE Split(text, Str("\n"))

\* calls begun so far: the call under way and the one CallAgain has ended
CallsSpawned == (IF ret.some THEN 1 ELSE 0) + (IF pc = "spawn" THEN 0 ELSE 1)

\* the text handed to write_all
JoinedNames == Join(Utf8Names, Str("\n"))

\* every byte the parent holds or has written, as a copying child passes it on
BytesOnTheWay ==
    rbuf \o pout.buf \o child.hold \o pin.buf \o wbuf

\* C28: one call spawns the program exactly once, without arguments and without a
\* retry; it sends the candidate paths that are valid UTF-8, all of them and no
\* other, joined by single newlines without a trailing newline; and it closes the
\* child's stdin before it first reads the child's stdout
C28_SpawnWriteClose ==
    /\ Len(spawned) = CallsSpawned
    /\ \A i \in 1..Len(spawned) : spawned[i] = arg.script_path
    /\ pc \in {"write", "read"} =>
          LET sent == Len(JoinedNames) - Len(wbuf)
          IN  /\ sent >= 0
              /\ wbuf = SubSeq(JoinedNames, sent + 1, Len(JoinedNames))
              /\ pin.buf = SubSeq(JoinedNames, sent - Len(pin.buf) + 1, sent)
    /\ (pc \in {"write", "read", "pipe_done"} /\ Program.kind = "echo")
          => NamesIn(BytesOnTheWay) = Utf8Names
    /\ pc = "read" => (wbuf = <<>> /\ ~pin.wopen)
    /\ rbuf # <<>> => ~pin.wopen

C28_Witness ==
    /\ pc = "read" /\ ~ret.some
    /\ arg.script_path = BinCat
    /\ arg.path = <<Str("/a"), <<"/", InvalidByte>>, Str("b")>>
    /\ spawned = <<BinCat>>
    /\ ~pin.wopen /\ wbuf = <<>>
    /\ rbuf = <<>> /\ pout.buf = Str("/a")
    /\ child.hold \o pin.buf = Str("\nb")

---------------------------------------------------------------------------
(* Termination of the external-script call (checked under FairSpecPipe) *)

\* the steps of the calling process
ParentNext ==
    Spawn \/ WriteChunk \/ WriteBrokenPipe \/ WriteDone \/ ReadChunk \/ ReadError \/ ReadEof

\* the steps of the spawned program
ChildNext == ChildRead \/ ChildEof \/ ChildWrite \/ ChildExit

\* both processes are scheduled: each takes a step when it stays able to take one
FairSpecPipe == SpecPipe /\ WF_vars(ParentNext) /\ WF_vars(ChildNext)

\* write_all waits for room in the child's stdin pipe
ParentBlocked ==
    pc = "write" /\ wbuf # <<>> /\ pin.ropen /\ Len(pin.buf) = PipeCap

\* the child waits for room in its stdout pipe, which the parent does not read yet
ChildBlocked ==
    /\ child.state = "running" /\ child.hold # <<>>
    /\ pout.ropen /\ Len(pout.buf) = PipeCap

\* C29: with a child that copies stdin to stdout and exits at end of input, and
\* pipes of bounded capacity, the call eventually returns for every candidate list
C29_EventuallyReturns ==
    Program.kind = "echo" => <>(pc = "pipe_done")

\* the call returns when the names fit into the two pipes and the child's buffer
C29_ReturnsWhenFits ==
    (Program.kind = "echo" /\ Len(JoinedNames) <= 3 * PipeCap) => <>(pc = "pipe_done")

\* a call to a program that reads all of its input before it prints returns
C29_ReturnsWhenDrained ==
    Program.kind = "prints" => <>(pc = "pipe_done")

\* parent and child wait for each other
C29_MutualBlock == ParentBlocked /\ ChildBlocked

---------------------------------------------------------------------------
(* main.rs, config.rs: Config::create_rpm_builder choosing the discovery mode *)

AutoReqKey == Str("auto-req")

\* rpm::Dependency::any
DependencyAny(name) == [name |-> name, flags |-> "ANY", version |-> <<>>]

\* the choice of the mode with the manifest consulted first
auto_req_manifest_first(auto_req_mode, metadata) ==
    LET m == get_str(metadata, AutoReqKey)
    IN  IF ~m.ok THEN m
        ELSE IF m.val.some /\ m.val.val \in {Str("no"), Str("disabled")} THEN Ok(Disabled)
        ELSE Ok(auto_req_mode)

\* config.rs: let auto_req = if auto_req_mode == Auto && matches!(get_str("auto-req")?, ..)
auto_req_of_builder(auto_req_mode, metadata) ==
    IF auto_req_mode = Auto
        THEN LET m == get_str(metadata, AutoReqKey)
             IN  IF ~m.ok THEN m
                 ELSE IF m.val.some /\ m.val.val \in {Str("no"), Str("disabled")}
                     THEN Ok(Disabled)
                     ELSE Ok(auto_req_mode)
        ELSE Ok(auto_req_mode)

\* main.rs parse_arg: AutoReqMode::try_from(opt_str("auto-req").unwrap_or("auto"))
parse_auto_req(opt, exists) == try_from(IF opt.some THEN opt.val ELSE Str("auto"), exists)

\* find_requires(files, mode): the Disabled arm, and for the other modes what the
\* discovery gives on the package's files
Discover(auto_req, found) == IF auto_req = Disabled THEN Ok(<<>>) ELSE found

\* what --auto-req holds: nothing, a keyword, or the path of an existing program
AutoReqOptions ==
    {NoneValue} \cup {Some(v) : v \in {Str("auto"), Str("no"), Str("disabled"), Str("builtin"),
                                        Str("find-requires"), BinCat}}

\* the manifest's metadata table: without auto-req, or with a string or another value
BuilderManifests ==
    { [branch_path |-> NoneValue, metadata |-> [k \in {} |-> NoneValue]] }
        \cup { [branch_path |-> NoneValue, metadata |-> [k \in {AutoReqKey} |-> v]] :
                 v \in { [type |-> "String", str |-> Str("no")],
                         [type |-> "String", str |-> Str("disabled")],
                         [type |-> "String", str |-> Str("auto")],
                         [type |-> "String", str |-> Str("builtin")],
                         [type |-> "String", str |-> <<>>],
                         [type |-> "Boolean", bool |-> FALSE] } }

FoundOutcomes ==
    { Ok(<<>>), Ok(<<Str("libc.so.6()(64bit)")>>),
      Ok(<<Str("/b/sh"), Str("libc.so.6()(64bit)")>>), ProcessError(Str("ldd")) }

\* what the requires table of the manifest has put into the builder before
DeclaredRequires == { <<>>, <<[name |-> Str("bash"), flags |-> "GE", version |-> Str("4")]>> }

InitBuilder ==
    /\ pc = "parse_arg"
    /\ arg \in [auto_req : AutoReqOptions, metadata : BuilderManifests,
                found : FoundOutcomes, declared : DeclaredRequires]
    /\ ret = NoneValue
    /\ DispatcherIdle

BuilderFrame ==
    UNCHANGED <<arg, files, fs, idx, result, spawned, opened, probes, analyzed,
                pipeVars, parserVars>>

\* main.rs parse_arg: the mode of the command line, kept in RpmBuilderConfig
ParseArg ==
    /\ pc = "parse_arg"
    /\ mode' = parse_auto_req(arg.auto_req, {BinCat}).val
    /\ pc' = "builder_call"
    /\ UNCHANGED <<ret, requires>>
    /\ BuilderFrame

\* the rest of the step once the mode is chosen: find_requires is called with it (mode
\* then holds the mode of that call, NoneValue when there is none) and every
\* requirement goes into the builder as Dependency::any
AddDiscovered(chosen) ==
    IF ~chosen.ok
        THEN ret' = chosen /\ mode' = NoneValue /\ UNCHANGED requires
        ELSE LET f == Discover(chosen.val, arg.found)
             IN  /\ mode' = chosen.val
                 /\ IF ~f.ok
                       THEN ret' = f /\ UNCHANGED requires
                       ELSE /\ ret' = Ok(Str("builder"))
                            /\ requires' = arg.declared
                                 \o [i \in 1..Len(f.val) |-> DependencyAny(f.val[i])]

\* Config::create_rpm_builder of config.rs, from the requires table to find_requires
CreateRpmBuilder ==
    /\ pc = "builder_call"
    /\ AddDiscovered(auto_req_of_builder(mode, arg.metadata))
    /\ pc' = "builder_ret"
    /\ BuilderFrame

NextBuilder == ParseArg \/ CreateRpmBuilder

SpecBuilder == InitBuilder /\ [][NextBuilder]_vars

---------------------------------------------------------------------------
(* Claims about the choice of the mode (checked under SpecBuilder) *)

BuilderReturned == pc = "builder_ret"

\* the mode the command line asks for; Auto when it names none
CommandLineMode ==
    IF ~arg.auto_req.some THEN Auto
    ELSE CASE arg.auto_req.val = Str("auto")                    -> Auto
           [] arg.auto_req.val \in {Str("no"), Str("disabled")} -> Disabled
           [] arg.auto_req.val = Str("builtin")                 -> BuiltIn
           [] arg.auto_req.val = Str("find-requires")           -> Script(RPM_FIND_REQUIRES)
           [] OTHER                                             -> Script(arg.auto_req.val)

ManifestHas(type) ==
    AutoReqKey \in DOMAIN arg.metadata.metadata /\ arg.metadata.metadata[AutoReqKey].type = type

ManifestDisables ==
    ManifestHas("String") /\ arg.metadata.metadata[AutoReqKey].str \in {Str("no"), Str("disabled")}

\* the builder after discovery in mode m: the declared requirements followed by one
\* any-version dependency for every discovered requirement
BuiltWith(m) ==
    /\ mode = m
    /\ IF m = Disabled \/ arg.found.ok
          THEN /\ ret.ok
               /\ LET found == IF m = Disabled THEN <<>> ELSE arg.found.val
                  IN  requires = arg.declared
                        \o [i \in 1..Len(found) |->
                              [name |-> found[i], flags |-> "ANY", version |-> <<>>]]
          ELSE ret = arg.found

ManifestRead == CommandLineMode = Auto

C30_WitnessManifest ==
    /\ pc = "builder_ret"
    /\ ~arg.auto_req.some
    /\ ManifestDisables
    /\ arg.found = Ok(<<Str("/b/sh"), Str("libc.so.6()(64bit)")>>)
    /\ mode = Disabled
    /\ requires = arg.declared

C30_WitnessWrongType ==
    /\ pc = "builder_ret"
    /\ arg.auto_req = Some(Str("auto"))
    /\ ManifestHas("Boolean")
    /\ ret = WrongType(AutoReqKey, "string")
=============================================================================
